---- MODULE Spec2Model ----
(***************************************************************************)
(* Model of the budget-book extractor (src/6年度予算/extract_budget_v4.py). *)
(*                                                                         *)
(* A text is a sequence of characters; a character is an atom.  Kanji and  *)
(* full-width characters are written with ASCII atoms:                     *)
(*   "kan" 款   "kou" 項   "kei" 計   "sen" 千   "en" 円   "tri" △         *)
(*   "hon" 本   "zen" 前   "nen" 年   "do" 度   "yo" 予   "san" 算          *)
(*   "gaku" 額  "setsu" 節 "toku" 説  "ku" 区   "bun" 分   "kin" 金         *)
(*   "FLP" （   "F0".."F9" ０..９  (full-width digits)                     *)
(* Every other atom ("A", "P", "M", "x", ...) is an ordinary name          *)
(* character.  Python's None is <<>> and a present value v is <<v>>.       *)
(***************************************************************************)
EXTENDS Integers, Sequences, FiniteSets, TLC

VARIABLES
  \* ---- build_budget_structure (the assembler) ----
  pc,               \* "idle" | "load" | "rows" | "flush" | "done" | "raised"
  left_idx,         \* loop variable of the spread loop (0-indexed left page)
  end_page,         \* end_page argument (1-indexed, inclusive)
  num_pages,        \* len(pdf.pages)
  left_rows,        \* rows of the current spread
  row_i,            \* index of the next row of left_rows to process
  moku_rows,        \* y of the item rows of the current spread
  right_setsu_list, \* clauses of the current spread not yet claimed
  result,           \* result['款']: references to chapter dicts
  current_kan,      \* reference to the open chapter dict, or None
  current_kou,      \* reference to the current section dict, or None
  kans,             \* heap of chapter dicts: reference -> dict
  kous,             \* heap of section dicts: reference -> dict
  \* ---- history (not program state) ----
  hist,
  \* ---- identify_row_type applied to one text ----
  cl_pc, cl_text, cl_out,
  \* ---- one call of a function of the module: its position ("off" | "in" |
  \* "out"), its argument and what it returned ----
  fn_pc, fn_in, fn_out,
  \* ---- main: the two calls of build_budget_structure on one PDF ----
  pdf,              \* the spreads of the PDF, in page order (<<>>: not fixed)
  run,              \* the call the assembler variables belong to (0: none)
  parked,           \* the variables of the other call, or None
  seq_out,          \* the trees the calls returned when run one after the other
  sched             \* history: the call and left_idx at each switch of calls

None == <<>>
Some(v) == <<v>>

(***************************************************************************)
(* Characters and Python's str methods                                     *)
(***************************************************************************)
HalfDigits == {"0", "1", "2", "3", "4", "5", "6", "7", "8", "9"}
FullDigits == {"F0", "F1", "F2", "F3", "F4", "F5", "F6", "F7", "F8", "F9"}

\* \d of a str pattern: every Unicode decimal digit.
IsDigit(c) == c \in HalfDigits \cup FullDigits
\* \s, and what str.strip() removes.
IsSpace(c) == c = " "
\* [\d,]
IsNumChar(c) == IsDigit(c) \/ c = ","
\* [\d,△\-]
IsAmtChar(c) == IsDigit(c) \/ c \in {",", "tri", "-"}

DigitVal(c) ==
  CASE c \in {"0", "F0"} -> 0 [] c \in {"1", "F1"} -> 1 [] c \in {"2", "F2"} -> 2
    [] c \in {"3", "F3"} -> 3 [] c \in {"4", "F4"} -> 4 [] c \in {"5", "F5"} -> 5
    [] c \in {"6", "F6"} -> 6 [] c \in {"7", "F7"} -> 7 [] c \in {"8", "F8"} -> 8
    [] c \in {"9", "F9"} -> 9

MaxOf(S) == CHOOSE m \in S : \A k \in S : k <= m
MinOf(S) == CHOOSE m \in S : \A k \in S : m <= k

\* t[i..j]
Slice(t, i, j) == [k \in 1..(j - i + 1) |-> t[i + k - 1]]

\* The character classes of the patterns, by name.
InClass(c, class) ==
  CASE class = "space" -> IsSpace(c)
    [] class = "digit" -> IsDigit(c)
    [] class = "num"   -> IsNumChar(c)
    [] class = "amt"   -> IsAmtChar(c)

\* The end of the longest run of characters of the class that starts at i
\* (i - 1 when t[i] is not of the class): what a greedy + or * consumes.
RunEnd(t, i, class) ==
  MaxOf({j \in (i - 1)..Len(t) : \A k \in i..j : InClass(t[k], class)})

\* The ends of consecutive greedy runs of the classes, the first from i.
RECURSIVE RunEnds(_, _, _)
RunEnds(t, i, classes) ==
  IF classes = <<>> THEN <<>>
  ELSE <<RunEnd(t, i, classes[1])>>
       \o RunEnds(t, RunEnd(t, i, classes[1]) + 1, Tail(classes))

\* str.strip()
StripTo(t, keep) == IF keep = {} THEN <<>> ELSE Slice(t, MinOf(keep), MaxOf(keep))

Strip(t) == StripTo(t, {i \in 1..Len(t) : ~IsSpace(t[i])})

\* sub occurs in t at position i
OccursAt(t, sub, i) ==
  /\ i + Len(sub) - 1 <= Len(t)
  /\ \A k \in 1..Len(sub) : t[i + k - 1] = sub[k]

\* sub in t
Contains(t, sub) == \E i \in 1..(Len(t) + 1) : OccursAt(t, sub, i)

\* str.replace(sub, ''): the occurrences of sub, left to right, not overlapping
RECURSIVE RemoveAll(_, _)
RemoveAll(t, sub) ==
  IF t = <<>> THEN <<>>
  ELSE IF OccursAt(t, sub, 1) THEN RemoveAll(SubSeq(t, Len(sub) + 1, Len(t)), sub)
  ELSE <<t[1]>> \o RemoveAll(Tail(t), sub)

\* str.replace(c, d) for single characters
ReplaceChar(t, c, d) == [k \in 1..Len(t) |-> IF t[k] = c THEN d ELSE t[k]]

\* ' '.join(texts)
RECURSIVE Join(_)
Join(texts) ==
  IF texts = <<>> THEN <<>>
  ELSE IF Len(texts) = 1 THEN texts[1]
  ELSE texts[1] \o <<" ">> \o Join(Tail(texts))

\* int(text): text is accepted when, after surrounding whitespace, it is an
\* optional sign and digits (single underscores allowed between digits).
Unsigned(s) == IF s # <<>> /\ s[1] \in {"-", "+"} THEN Tail(s) ELSE s

IntBody(t) == Unsigned(Strip(t))

DigitsOk(b) ==
  /\ b # <<>>
  /\ \A k \in 1..Len(b) : IsDigit(b[k]) \/ b[k] = "_"
  /\ IsDigit(b[1]) /\ IsDigit(b[Len(b)])
  /\ \A k \in 1..(Len(b) - 1) : ~(b[k] = "_" /\ b[k + 1] = "_")

IntAccepts(t) == DigitsOk(IntBody(t))

RECURSIVE DigitsValue(_)
DigitsValue(b) ==
  IF b = <<>> THEN 0
  ELSE IF b[Len(b)] = "_" THEN DigitsValue(SubSeq(b, 1, Len(b) - 1))
  ELSE 10 * DigitsValue(SubSeq(b, 1, Len(b) - 1)) + DigitVal(b[Len(b)])

Signed(s, v) == IF s[1] = "-" THEN 0 - v ELSE v

IntValue(t) == Signed(Strip(t), DigitsValue(IntBody(t)))

SenEn == <<"sen", "en">>

(***************************************************************************)
(* parse_amount                                                            *)
(***************************************************************************)
\* lines 207-210: int(text) * 1000, None when int raises
UnitsOf(t) == IF IntAccepts(t) THEN Some(IntValue(t)) ELSE None

ThousandsOf(t) == IF IntAccepts(t) THEN Some(IntValue(t) * 1000) ELSE None

parse_amount(text) ==
  IF text = <<>> THEN None
  ELSE ThousandsOf(Strip(RemoveAll(ReplaceChar(RemoveAll(text, <<",">>), "tri", "-"), SenEn)))

(***************************************************************************)
(* identify_row_type: the patterns, matched as re.match matches them       *)
(***************************************************************************)
NoMatch == [ok |-> FALSE]

\* ^-\s*\d+\s*-$ (the text is stripped, so $ is the end of the text);
\* r: the ends of the runs \s* \d+ \s* from position 2
PageNumberFrom(t, r) ==
  r[2] >= r[1] + 1 /\ r[3] + 1 = Len(t) /\ t[r[3] + 1] = "-"

PageNumberMatch(t) ==
  /\ Len(t) >= 1 /\ t[1] = "-"
  /\ PageNumberFrom(t, RunEnds(t, 2, <<"space", "digit", "space">>))

\* \s+([\d,]+)千円 at position i: <<first, last>> of the amount, or <<>>;
\* r: the ends of the runs \s+ [\d,]+ from i
AmountUnitFrom(t, i, r) ==
  IF r[1] >= i /\ r[2] >= r[1] + 1 /\ OccursAt(t, SenEn, r[2] + 1)
  THEN <<r[1] + 1, r[2]>> ELSE <<>>

AmountUnitAt(t, i) == AmountUnitFrom(t, i, RunEnds(t, i, <<"space", "num">>))

\* \s+([\d,△\-]+)\s+([\d,△\-]+)\s+([\d,△\-]+) at position i:
\* <<first1, last1, first2, last2, first3, last3>>, or <<>>;
\* r: the ends of the six runs from i
ThreeAmountsFrom(i, r) ==
  IF /\ r[1] >= i /\ r[2] >= r[1] + 1 /\ r[3] >= r[2] + 1 /\ r[4] >= r[3] + 1
     /\ r[5] >= r[4] + 1 /\ r[6] >= r[5] + 1
  THEN <<r[1] + 1, r[2], r[3] + 1, r[4], r[5] + 1, r[6]>> ELSE <<>>

ThreeAmountsAt(t, i) ==
  ThreeAmountsFrom(i, RunEnds(t, i, <<"space", "amt", "space", "amt", "space", "amt">>))

\* \s+(.+?)<tail> where the whitespace run is w..wEnd and ends is the set of
\* positions e with a match of <tail> at e + 1: the greedy \s+ keeps as much
\* whitespace as leaves a match, then the lazy name is the shortest that
\* leaves a match.  <<first, last>> of the name, or <<>>.
LazyNameFrom(w, wEnd, ends) ==
  LET starts == {s \in (w + 1)..(wEnd + 1) : \E e \in ends : e >= s}
  IN IF starts = {} THEN <<>>
     ELSE <<MaxOf(starts), MinOf({e \in ends : e >= MaxOf(starts)})>>

LazyName(t, w, ends) == LazyNameFrom(w, RunEnd(t, w, "space"), ends)

\* the positions e with a match of \s+([\d,]+)千円 at e + 1
AmountUnitEnds(t) == {e \in 1..Len(t) : AmountUnitAt(t, e + 1) # <<>>}

\* the positions e with a match of the three amounts at e + 1
ThreeAmountsEnds(t) == {e \in 1..Len(t) : ThreeAmountsAt(t, e + 1) # <<>>}

\* (\d+|[０-９]+)<marker>\s+(.+?)\s+([\d,]+)千円 at position p;
\* d: the end of the digits, nm: the name, am: the amount
HeaderGroups(t, p, d, nm, am) ==
  [ok |-> TRUE,
   g1 |-> Slice(t, p, d),
   g2 |-> Slice(t, nm[1], nm[2]),
   g3 |-> Slice(t, am[1], am[2])]

HeaderFrom(t, p, marker, d, nm) ==
  IF ~(d >= p /\ d + 1 <= Len(t) /\ t[d + 1] = marker) THEN NoMatch
  ELSE IF nm = <<>> THEN NoMatch
  ELSE HeaderGroups(t, p, d, nm, AmountUnitAt(t, nm[2] + 1))

HeaderMatchAt(t, p, marker) ==
  HeaderFrom(t, p, marker, RunEnd(t, p, "digit"),
             LazyName(t, RunEnd(t, p, "digit") + 2, AmountUnitEnds(t)))

\* [（(]?(\d+|[０-９]+)款\s+(.+?)\s+([\d,]+)千円
KanMatch(t) ==
  HeaderMatchAt(t, IF Len(t) >= 1 /\ t[1] \in {"(", "FLP"} THEN 2 ELSE 1, "kan")

\* (\d+|[０-９]+)項\s+(.+?)\s+([\d,]+)千円
KouMatch(t) == HeaderMatchAt(t, 1, "kou")

\* 計\s+([\d,△\-]+)\s+([\d,△\-]+)\s+([\d,△\-]+)
TotalFrom(t, am) ==
  IF ~(Len(t) >= 1 /\ t[1] = "kei") THEN NoMatch
  ELSE IF am = <<>> THEN NoMatch
  ELSE [ok |-> TRUE,
        g1 |-> Slice(t, am[1], am[2]),
        g2 |-> Slice(t, am[3], am[4]),
        g3 |-> Slice(t, am[5], am[6])]

TotalMatch(t) == TotalFrom(t, ThreeAmountsAt(t, 2))

\* (\d+)\s+(.+?)\s+([\d,△\-]+)\s+([\d,△\-]+)\s+([\d,△\-]+)
MokuGroups(t, d, nm, am) ==
  [ok |-> TRUE,
   g1 |-> Slice(t, 1, d),
   g2 |-> Slice(t, nm[1], nm[2]),
   g3 |-> Slice(t, am[1], am[2]),
   g4 |-> Slice(t, am[3], am[4]),
   g5 |-> Slice(t, am[5], am[6])]

MokuFrom(t, d, nm) ==
  IF d < 1 THEN NoMatch
  ELSE IF nm = <<>> THEN NoMatch
  ELSE MokuGroups(t, d, nm, ThreeAmountsAt(t, nm[2] + 1))

MokuMatch(t) ==
  MokuFrom(t, RunEnd(t, 1, "digit"), LazyName(t, RunEnd(t, 1, "digit") + 1, ThreeAmountsEnds(t)))

HonNendo == <<"hon", "nen", "do", "yo", "san", "gaku">>
ZenNendo == <<"zen", "nen", "do", "yo", "san", "gaku">>

\* lines 220-223
IsHeaderText(t) ==
  \/ Contains(t, HonNendo) \/ Contains(t, ZenNendo)
  \/ t \in {SenEn, SenEn \o <<" ">> \o SenEn \o <<" ">> \o SenEn}

Row(type, name, data) == [type |-> type, name |-> name, data |-> data]

\* lines 229-232, 236-239: the data of a chapter or section header
HeaderData(m) == Some([bangou |-> m.g1, honnendo |-> parse_amount(m.g3)])

\* lines 243-247
TotalData(m) ==
  Some([honnendo |-> parse_amount(m.g1),
        zennendo |-> parse_amount(m.g2),
        hikaku   |-> parse_amount(m.g3)])

\* lines 251-256
MokuData(m) ==
  Some([bangou   |-> m.g1,
        honnendo |-> parse_amount(m.g3),
        zennendo |-> parse_amount(m.g4),
        hikaku   |-> parse_amount(m.g5)])

(***************************************************************************)
(* identify_row_type                                                       *)
(*   t: the stripped text; kanM, kouM, totM, mokM: the matches of the four *)
(*   patterns on t                                                         *)
(***************************************************************************)
ClassifyHeaderLast(t, kanM, kouM, totM, mokM) ==
  IF t = <<>> THEN Row("empty", None, None)
  ELSE IF PageNumberMatch(t) THEN Row("page_number", None, None)
  ELSE IF kanM.ok THEN Row("kan_header", Some(kanM.g2), HeaderData(kanM))
  ELSE IF kouM.ok THEN Row("kou_header", Some(kouM.g2), HeaderData(kouM))
  ELSE IF totM.ok THEN Row("total", None, TotalData(totM))
  ELSE IF mokM.ok THEN Row("moku", Some(mokM.g2), MokuData(mokM))
  ELSE IF IsHeaderText(t) THEN Row("header", None, None)
  ELSE Row("unknown", Some(t), None)

\* lines 217-258
ClassifyStripped(t, kanM, kouM, totM, mokM) ==
  IF t = <<>> THEN Row("empty", None, None)
  ELSE IF IsHeaderText(t) THEN Row("header", None, None)
  ELSE IF PageNumberMatch(t) THEN Row("page_number", None, None)
  ELSE IF kanM.ok THEN Row("kan_header", Some(kanM.g2), HeaderData(kanM))
  ELSE IF kouM.ok THEN Row("kou_header", Some(kouM.g2), HeaderData(kouM))
  ELSE IF totM.ok THEN Row("total", None, TotalData(totM))
  ELSE IF mokM.ok THEN Row("moku", Some(mokM.g2), MokuData(mokM))
  ELSE Row("unknown", Some(t), None)

\* line 215 and the patterns of lines 227, 234, 241, 249 on the stripped text
ClassifyText(t) ==
  ClassifyStripped(t, KanMatch(t), KouMatch(t), TotalMatch(t), MokuMatch(t))

identify_row_type(left_text) == ClassifyText(Strip(left_text))

(***************************************************************************)
(* Pages, words and rows                                                   *)
(*   word: [text, x0, x1, top]   page: [width, words]                      *)
(***************************************************************************)
Y_TOLERANCE == 12
SETSU_Y_UNIT == 5
CLAIM_MARGIN == 20

\* round(n / d) of Python 3: to the nearest integer, a tie to the even one
PyRound(n, d) ==
  IF 2 * (n % d) < d THEN n \div d
  ELSE IF 2 * (n % d) > d THEN (n \div d) + 1
  ELSE IF (n \div d) % 2 = 0 THEN n \div d ELSE (n \div d) + 1

RECURSIVE SortedSeq(_)
SortedSeq(S) ==
  IF S = {} THEN <<>> ELSE <<MinOf(S)>> \o SortedSeq(S \ {MinOf(S)})

\* sorted(ws, key=lambda w: w['x0']): stable
RECURSIVE SortByX0(_)
SortByX0(ws) ==
  IF ws = <<>> THEN <<>>
  ELSE LET i == MinOf({k \in 1..Len(ws) : \A m \in 1..Len(ws) : ws[k].x0 <= ws[m].x0})
       IN <<ws[i]>> \o SortByX0(SubSeq(ws, 1, i - 1) \o SubSeq(ws, i + 1, Len(ws)))

Texts(ws) == [k \in 1..Len(ws) |-> ws[k].text]

\* round(w['top'] / unit) * unit
YKey(w, unit) == PyRound(w.top, unit) * unit

\* sorted(y_groups.keys())
YKeys(words, unit) == SortedSeq({YKey(words[k], unit) : k \in 1..Len(words)})

\* sorted(y_groups[y], key=lambda w: w['x0'])
YGroup(words, unit, y) ==
  LET InY(w) == YKey(w, unit) = y IN SortByX0(SelectSeq(words, InY))

(***************************************************************************)
(* extract_spread_rows                                                     *)
(***************************************************************************)
\* lines 172-178
SpreadWords(left_page, right_page) ==
  [k \in 1..Len(left_page.words) |->
     [text |-> left_page.words[k].text, x0 |-> left_page.words[k].x0,
      x1 |-> left_page.words[k].x1,
      top |-> left_page.words[k].top, source |-> "left"]]
  \o [k \in 1..Len(right_page.words) |->
        [text |-> right_page.words[k].text,
         x0 |-> right_page.words[k].x0 + left_page.width,
         x1 |-> right_page.words[k].x1,
         top |-> right_page.words[k].top, source |-> "right"]]

\* R6/extract_budget_v3.py lines 33-38: x1 is moved as well
SpreadWordsV3(left_page, right_page) ==
  [k \in 1..Len(left_page.words) |->
     [text |-> left_page.words[k].text, x0 |-> left_page.words[k].x0,
      x1 |-> left_page.words[k].x1,
      top |-> left_page.words[k].top, source |-> "left"]]
  \o [k \in 1..Len(right_page.words) |->
        [text |-> right_page.words[k].text,
         x0 |-> right_page.words[k].x0 + left_page.width,
         x1 |-> right_page.words[k].x1 + left_page.width,
         top |-> right_page.words[k].top, source |-> "right"]]

\* ' '.join(w['text'] for w in words if w['source'] == source)
SideTextOfBoth(words, source) == Join(Texts(words))

SideText(words, source) ==
  LET OnSide(w) == w.source = source IN Join(Texts(SelectSeq(words, OnSide)))

\* lines 180-197; ys: the keys of the y groups in ascending order
SpreadRowsAt(all_words, ys) ==
  [k \in 1..Len(ys) |->
     [y     |-> ys[k],
      left  |-> SideText(YGroup(all_words, Y_TOLERANCE, ys[k]), "left"),
      right |-> SideText(YGroup(all_words, Y_TOLERANCE, ys[k]), "right")]]

SpreadRowsOf(all_words) == SpreadRowsAt(all_words, YKeys(all_words, Y_TOLERANCE))

extract_spread_rows(left_page, right_page) ==
  SpreadRowsOf(SpreadWords(left_page, right_page))

(***************************************************************************)
(* parse_setsumei_lines                                                    *)
(*   a sub-item: [name, kingaku, choutei, santei, bikou], the last three   *)
(*   optional; the clause-level record: [choutei, santei], both optional   *)
(***************************************************************************)
Choutei == <<"chou", "tei", "mi", "komi", "gaku">>
Santei  == <<"san", "tei", "hyou", "jun", "gaku">>

\* \s*([\d,]+)$ ; r: the ends of the runs \s* [\d,]+
NumberToEnd(line, r) == r[1] + 1 <= Len(line) /\ r[2] = Len(line)

\* the ends of the names [^\d]+? that leave a match of \s*([\d,]+)$
ItemEnds(line) ==
  {e \in 1..Len(line) :
     /\ \A k \in 1..e : ~IsDigit(line[k])
     /\ NumberToEnd(line, RunEnds(line, e + 1, <<"space", "num">>))}

ItemFrom(line, ends) ==
  IF ends = {} THEN <<>>
  ELSE <<MinOf(ends), RunEnd(line, MinOf(ends) + 1, "space") + 1>>

\* ^([^\d]+?)\s*([\d,]+)$ : <<last of the name, first of the number>>, or <<>>
ItemMatch(line) == ItemFrom(line, ItemEnds(line))

NoInfo == [choutei |-> None, santei |-> None]

IndexIn(hit) == IF hit = {} THEN 0 ELSE MinOf(hit)

IndexOfName(items, name) == IndexIn({k \in 1..Len(items) : items[k].name = name})

\* current_item_name and current_item_name in result: the index of the
\* current sub-item, 0 when there is none
CurrentIndex(st) ==
  IF st.current = None THEN 0 ELSE IndexOfName(st.items, st.current[1])

\* lines 119-127; cur: the index of the current sub-item
LabelLine(st, line, cur, value) ==
  IF cur # 0
  THEN IF Contains(line, Choutei)
       THEN [st EXCEPT !.items[cur].choutei = Some(value)]
       ELSE [st EXCEPT !.items[cur].santei = Some(value)]
  ELSE IF Contains(line, Choutei)
       THEN [st EXCEPT !.info.choutei = Some(value)]
       ELSE [st EXCEPT !.info.santei = Some(value)]

\* lines 132-143; digits: group 2 without its commas
ItemLineKeepCurrent(st, item_name, digits, setsu_name) ==
  IF ~IntAccepts(digits) THEN [st EXCEPT !.raised = TRUE]
  ELSE IF item_name = setsu_name THEN st
  ELSE IF IndexOfName(st.items, item_name) = 0 THEN
    [st EXCEPT !.items = Append(@, [name |-> item_name,
                                     kingaku |-> IntValue(digits) * 1000,
                                     choutei |-> None, santei |-> None,
                                     bikou |-> None]),
               !.current = Some(item_name)]
  ELSE st

ItemLineReopen(st, item_name, digits, setsu_name) ==
  IF ~IntAccepts(digits) THEN [st EXCEPT !.raised = TRUE]
  ELSE IF item_name = setsu_name THEN [st EXCEPT !.current = None]
  ELSE IF IndexOfName(st.items, item_name) = 0 THEN
    [st EXCEPT !.items = Append(@, [name |-> item_name,
                                     kingaku |-> IntValue(digits) * 1000,
                                     choutei |-> None, santei |-> None,
                                     bikou |-> None]),
               !.current = Some(item_name)]
  ELSE [st EXCEPT !.current = Some(item_name)]

ItemLine(st, item_name, digits, setsu_name) ==
  IF ~IntAccepts(digits) THEN [st EXCEPT !.raised = TRUE]
  ELSE IF item_name = setsu_name THEN [st EXCEPT !.current = None]
  ELSE IF IndexOfName(st.items, item_name) = 0 THEN
    [st EXCEPT !.items = Append(@, [name |-> item_name,
                                     kingaku |-> IntValue(digits) * 1000,
                                     choutei |-> None, santei |-> None,
                                     bikou |-> None]),
               !.current = Some(item_name)]
  ELSE st

\* lines 146-150
OtherLine(st, line, cur) ==
  IF cur = 0 THEN st
  ELSE IF st.items[cur].bikou = None
  THEN [st EXCEPT !.items[cur].bikou = Some(line)]
  ELSE [st EXCEPT !.items[cur].bikou = Some(@[1] \o <<" ">> \o line)]

\* lines 114-150 for a stripped line; im: the match of the item pattern
SetsumeiLine(st, line, im, setsu_name) ==
  IF st.raised \/ line = <<>> THEN st
  ELSE IF Contains(line, Choutei) \/ Contains(line, Santei)
  THEN LabelLine(st, line, CurrentIndex(st),
                 Strip(RemoveAll(RemoveAll(line, Choutei), Santei)))
  ELSE IF im # <<>>
  THEN ItemLine(st, Strip(Slice(line, 1, im[1])),
                RemoveAll(Slice(line, im[2], Len(line)), <<",">>), setsu_name)
  ELSE OtherLine(st, line, CurrentIndex(st))

\* One line of the loop of lines 112-150 applied to the state
\* st = [raised, items, current, info].
SetsumeiStep(st, raw, setsu_name) ==
  SetsumeiLine(st, Strip(raw), ItemMatch(Strip(raw)), setsu_name)

RECURSIVE SetsumeiFold(_, _, _)
SetsumeiFold(st, lines, setsu_name) ==
  IF lines = <<>> THEN st
  ELSE SetsumeiFold(SetsumeiStep(st, lines[1], setsu_name), Tail(lines), setsu_name)

\* The result: [raised, items, info, flat]; flat: the clause-level record is
\* the whole result (line 154); otherwise items, with the clause-level
\* record under the key _節情報 when it is not empty (line 156).
SetsumeiResult(st) ==
  [raised |-> st.raised,
   items  |-> st.items,
   info   |-> st.info,
   flat   |-> st.info # NoInfo /\ st.items = <<>>]

parse_setsumei_lines(lines, setsu_name) ==
  SetsumeiResult(SetsumeiFold([raised |-> FALSE, items |-> <<>>, current |-> None,
                               info |-> NoInfo], lines, setsu_name))

\* the key _節情報 of line 156
SetsuInfoKey == <<"_", "setsu", "jou", "hou">>

LabelKeys(info) ==
  {lab \in {Choutei, Santei} :
     IF lab = Choutei THEN info.choutei # None ELSE info.santei # None}

SetsumeiKeysNoInfo(r) ==
  IF r.flat THEN LabelKeys(r.info) ELSE {r.items[j].name : j \in 1..Len(r.items)}

\* lines 153-158: the keys of the dict a result stands for
SetsumeiKeys(r) ==
  IF r.flat THEN LabelKeys(r.info)
  ELSE {r.items[j].name : j \in 1..Len(r.items)}
       \cup (IF r.info # NoInfo THEN {SetsuInfoKey} ELSE {})

\* bool(d) of the dict a result stands for
SetsumeiTruthy(r) == r.items # <<>> \/ r.info # NoInfo

(***************************************************************************)
(* extract_right_page_setsu                                                *)
(***************************************************************************)
IsNameChar(c) == ~IsDigit(c) /\ ~IsSpace(c)

\* \s+([\d,]+)\s+(.*)$ at position i:
\* <<first of the number, last of the number, first of the rest>>, or <<>>;
\* r: the ends of the runs \s+ [\d,]+ \s+ from i
SetsuTailFrom(i, r) ==
  IF r[1] >= i /\ r[2] >= r[1] + 1 /\ r[3] >= r[2] + 1
  THEN <<r[1] + 1, r[2], r[3] + 1>> ELSE <<>>

SetsuTailAt(t, i) == SetsuTailFrom(i, RunEnds(t, i, <<"space", "num", "space">>))

\* the ends of the names [^\d\s]+(?:\s*[^\d\s]+)*? from s that leave a
\* match of the tail
SetsuNameEnds(t, s) ==
  {e \in s..Len(t) :
     /\ \A k \in s..e : ~IsDigit(t[k])
     /\ IsNameChar(t[s]) /\ IsNameChar(t[e])
     /\ SetsuTailAt(t, e + 1) # <<>>}

SetsuMatchGroups(t, d, s, e, tl) ==
  [ok |-> TRUE,
   g1 |-> Slice(t, 1, d),
   g2 |-> Slice(t, s, e),
   g3 |-> Slice(t, tl[1], tl[2]),
   g4 |-> Slice(t, tl[3], Len(t))]

\* d: the end of (\d+), w: the end of the \s+ after it
SetsuFrom(t, d, w, ends) ==
  IF d < 1 \/ w < d + 1 \/ ends = {} THEN NoMatch
  ELSE SetsuMatchGroups(t, d, w + 1, MinOf(ends), SetsuTailAt(t, MinOf(ends) + 1))

SetsuFromRuns(t, r) == SetsuFrom(t, r[1], r[2], SetsuNameEnds(t, r[2] + 1))

\* ^(\d+)\s+([^\d\s]+(?:\s*[^\d\s]+)*?)\s+([\d,]+)\s+(.*)$
SetsuMatch(t) == SetsuFromRuns(t, RunEnds(t, 1, <<"digit", "space">>))

\* lines 54-61: the rows of the right page that are skipped
IsRightHeader(text) ==
  \/ Contains(text, <<"setsu">>) /\ Contains(text, <<"toku">>)
  \/ Contains(text, <<"ku", " ", "bun">>) \/ Contains(text, <<"kin", " ", "gaku">>)
  \/ Strip(text) \in {SenEn, SenEn \o <<" ">> \o SenEn}
  \/ PageNumberMatch(text)

\* lines 39-43; ys: the keys of the y groups in ascending order
RightLinesAt(words, ys) ==
  [k \in 1..Len(ys) |->
     [y |-> ys[k], text |-> Join(Texts(YGroup(words, SETSU_Y_UNIT, ys[k])))]]

\* lines 32-43: the lines of the page, in ascending y
RightLines(page) == RightLinesAt(page.words, YKeys(page.words, SETSU_Y_UNIT))

\* lines 66-78: a line that starts a clause; digits: group 3 without commas
SetsuStart(st, line, m, digits) ==
  IF ~IntAccepts(digits) THEN [st EXCEPT !.raised = TRUE]
  ELSE [st EXCEPT
         !.groups  = IF st.current = None THEN @ ELSE Append(@, st.current[1]),
         !.current = Some([name    |-> RemoveAll(m.g2, <<" ">>),
                           kingaku |-> IntValue(digits) * 1000,
                           y_start |-> line.y,
                           setsumei_lines |->
                             IF Strip(m.g4) # <<>> THEN <<m.g4>> ELSE <<>>])]

\* lines 50-82; m: the match of the clause pattern on the line
SetsuLineNoSkip(st, line, m) ==
  IF st.raised THEN st
  ELSE IF m.ok THEN SetsuStart(st, line, m, RemoveAll(m.g3, <<",">>))
  ELSE IF st.current # None
  THEN [st EXCEPT !.current = Some([@[1] EXCEPT !.setsumei_lines = Append(@, line.text)])]
  ELSE st

SetsuLine(st, line, m) ==
  IF st.raised \/ IsRightHeader(line.text) THEN st
  ELSE IF m.ok THEN SetsuStart(st, line, m, RemoveAll(m.g3, <<",">>))
  ELSE IF st.current # None
  THEN [st EXCEPT !.current = Some([@[1] EXCEPT !.setsumei_lines = Append(@, line.text)])]
  ELSE st

\* One line of the loop of lines 49-82 applied to the state
\* st = [raised, groups, current]; current is None or the open clause.
SetsuStep(st, line) == SetsuLine(st, line, SetsuMatch(line.text))

RECURSIVE SetsuFold(_, _)
SetsuFold(st, lines) ==
  IF lines = <<>> THEN st ELSE SetsuFold(SetsuStep(st, lines[1]), Tail(lines))

\* lines 84-85
ClosedGroups(st) ==
  [raised |-> st.raised,
   groups |-> IF st.current = None THEN st.groups ELSE Append(st.groups, st.current[1])]

\* lines 45-85: the clauses of the page with their accumulated lines
SetsuGroups(page) ==
  ClosedGroups(SetsuFold([raised |-> FALSE, groups |-> <<>>, current |-> None],
                         RightLines(page)))

\* lines 88-96; parsed: parse_setsumei_lines of every group
SetsuListOf(g, parsed) ==
  IF g.raised \/ \E k \in 1..Len(parsed) : parsed[k].raised
  THEN [raised |-> TRUE, list |-> <<>>]
  ELSE [raised |-> FALSE,
        list |-> [k \in 1..Len(g.groups) |->
                    [name     |-> g.groups[k].name,
                     kingaku  |-> g.groups[k].kingaku,
                     y_start  |-> g.groups[k].y_start,
                     setsumei |-> parsed[k]]]]

SetsuList(g) ==
  SetsuListOf(g, [k \in 1..Len(g.groups) |->
                    parse_setsumei_lines(g.groups[k].setsumei_lines, g.groups[k].name)])

\* [raised, list]; list: the clauses [name, kingaku, y_start, setsumei]
extract_right_page_setsu(page) == SetsuList(SetsuGroups(page))

(***************************************************************************)
(* The inputs: printed lines, pages                                        *)
(***************************************************************************)
\* A printed line: its top and its tokens, left to right.
Line(top, tokens) == [top |-> top, tokens |-> tokens]

RECURSIVE LineWords(_)
LineWords(lines) ==
  IF lines = <<>> THEN <<>>
  ELSE [k \in 1..Len(lines[1].tokens) |->
          [text |-> lines[1].tokens[k], x0 |-> 10 * k, x1 |-> 10 * k + 8,
           top |-> lines[1].top]]
       \o LineWords(Tail(lines))

Page(lines) == [width |-> 100, words |-> LineWords(lines)]

\* the printed lines of the left pages, each the tokens left to right
LeftLine ==
  [KanA   |-> << <<"F1", "kan">>, <<"A">>, <<"5", "sen", "en">> >>,
   KanB   |-> << <<"(", "2", "kan">>, <<"B">>, <<",", "sen", "en">> >>,
   KouP   |-> << <<"1", "kou">>, <<"P">>, <<"3", "sen", "en">> >>,
   KouQ   |-> << <<"2", "kou">>, <<"Q">>, <<"4", "sen", "en">> >>,
   MokuM  |-> << <<"1">>, <<"M">>, <<"3">>, <<"2">>, <<"1">> >>,
   MokuN  |-> << <<"2">>, <<"N">>, <<"2">>, <<"3">>, <<"tri", "1">> >>,
   Total  |-> << <<"kei">>, <<"3">>, <<"2">>, <<"1">> >>,
   Header |-> << <<"hon", "nen", "do", "yo", "san", "gaku">> >>,
   PageNo |-> << <<"-">>, <<"7">>, <<"-">> >>,
   Other  |-> << <<"x">> >>]

LeftLineKinds == {LeftLine[k] : k \in DOMAIN LeftLine}

\* tops of the printed lines of a left page
LeftTops == <<30, 60>>

RECURSIVE PickLines(_, _)
PickLines(tops, f) ==
  IF tops = <<>> THEN <<>>
  ELSE (IF f[Len(tops)] = <<>> THEN PickLines(SubSeq(tops, 1, Len(tops) - 1), f)
        ELSE Append(PickLines(SubSeq(tops, 1, Len(tops) - 1), f),
                    Line(tops[Len(tops)], f[Len(tops)])))

LeftPages ==
  {Page(PickLines(LeftTops, f)) : f \in [1..Len(LeftTops) -> LeftLineKinds \cup {<<>>}]}

\* the printed lines of the right pages
RightLine ==
  [C    |-> << <<"1">>, <<"C">>, <<"7">>, <<"r">> >>,
   D    |-> << <<"2">>, <<"D">>, <<"8">>, <<"E">>, <<"3">> >>,
   Text |-> << <<"x">> >>,
   Unit |-> << <<"sen", "en">> >>,
   BadC |-> << <<"1">>, <<"C">>, <<",">>, <<"r">> >>,
   BadE |-> << <<"1">>, <<"C">>, <<"7">>, <<"E">>, <<",">> >>]

RightPages ==
  { Page(<<>>),
    Page(<<Line(0, RightLine.C), Line(30, RightLine.D), Line(42, RightLine.C)>>),
    Page(<<Line(42, RightLine.D), Line(60, RightLine.Text)>>),
    Page(<<Line(0, RightLine.Unit), Line(30, RightLine.C), Line(42, RightLine.D),
           Line(60, RightLine.C)>>),
    Page(<<Line(30, RightLine.BadC)>>),
    Page(<<Line(42, RightLine.BadE)>>) }

(***************************************************************************)
(* build_budget_structure                                                  *)
(*   row           [y, left, right, cls]; cls is identify_row_type of the  *)
(*                 row's left text (line 287): a function of that text     *)
(*                 alone, so the rows carry it from when they are built    *)
(*   chapter dict  kans[k] = [name, honnendo, kou],  kou: section refs     *)
(*   section dict  kous[q] = [name, honnendo, moku], moku: item nodes      *)
(*   item node     [name, honnendo, zennendo, hikaku, setsu], setsu: None  *)
(*                 (no 節 key) or Some(clause nodes)                        *)
(*   clause node   [name, kingaku, setsumei, id]; setsumei: None (no 説明   *)
(*                 key) or Some(rationale); id = <<left_idx, n>> names the *)
(*                 n-th clause extracted for the spread at left_idx (it is *)
(*                 not part of the output)                                 *)
(***************************************************************************)
MaxPages == 4

\* the history before the first spread: clause ids dropped and extracted
\* above the first item row, the section names and items logged per chapter
\* and section, the left_idx of the spreads extracted
NoHist == [dropped |-> {}, early |-> {}, kanLog |-> <<>>, kouLog |-> <<>>, loaded |-> <<>>]

asm_vars == <<pc, left_idx, end_page, num_pages, left_rows, row_i, moku_rows,
              right_setsu_list, result, current_kan, current_kou, kans, kous, hist>>
cl_vars  == <<cl_pc, cl_text, cl_out>>
fn_vars  == <<fn_pc, fn_in, fn_out>>
\* what build_budget_structure does not touch
main_vars == <<pdf, run, parked, seq_out, sched>>
side_vars == <<cl_vars, fn_vars, main_vars>>
vars     == <<asm_vars, side_vars>>

tree_vars == <<result, current_kan, current_kou, kans, kous>>

ClIdle == cl_pc = "off" /\ cl_text = <<>> /\ cl_out = None

FnIdle == fn_pc = "off" /\ fn_in = <<>> /\ fn_out = None

MainIdle == pdf = <<>> /\ run = 0 /\ parked = None /\ seq_out = <<>> /\ sched = <<>>

\* line 268: range(start_page - 1, end_page - 1, 2) has an element at left_idx
InRange == left_idx < end_page - 1

\* line 287 for every row of a spread
ClassifiedRows(rows) ==
  [k \in 1..Len(rows) |->
     [y |-> rows[k].y, left |-> rows[k].left, right |-> rows[k].right,
      cls |-> identify_row_type(rows[k].left)]]

\* lines 280-284
MokuRowsOf(rows) ==
  LET IsMoku(r) == r.cls.type = "moku"
  IN [k \in 1..Len(SelectSeq(rows, IsMoku)) |->
        [y |-> SelectSeq(rows, IsMoku)[k].y, name |-> SelectSeq(rows, IsMoku)[k].cls.name[1]]]

\* lines 274-284 for one pair of pages: [rows, setsu, moku_rows]
SpreadOf(rows, setsu) == [rows |-> rows, setsu |-> setsu, moku_rows |-> MokuRowsOf(rows)]

\* the spreads the pages can make, computed once
Spreads ==
  {SpreadOf(ClassifiedRows(extract_spread_rows(lp, rp)), extract_right_page_setsu(rp)) :
     lp \in LeftPages, rp \in RightPages}

\* lines 274-277: what the pages at left_idx and left_idx + 1 give; a PDF
\* that is not fixed has any of the pages there
SpreadsAt(i) == IF pdf = <<>> THEN Spreads ELSE {pdf[(i \div 2) + 1]}

CurRow  == left_rows[row_i]
CurType == CurRow.cls

\* line 277: the list the spread starts with
CarriedSetsuList(old, extracted) == old \o extracted

FreshSetsuList(old, extracted) == extracted

TagClauses(list, spread) ==
  [k \in 1..Len(list) |->
     [name |-> list[k].name, kingaku |-> list[k].kingaku, y_start |-> list[k].y_start,
      setsumei |-> list[k].setsumei, id |-> <<spread, k>>]]

Ids(list) == {list[k].id : k \in 1..Len(list)}

\* lines 268-284: the head of one iteration of the spread loop
LoadSpread ==
  /\ pc = "load" /\ InRange /\ left_idx + 1 < num_pages
  /\ \E sp \in SpreadsAt(left_idx) :
       LET rows == sp.rows
           ex   == sp.setsu
           list == FreshSetsuList(right_setsu_list, TagClauses(ex.list, left_idx))
           mk   == sp.moku_rows
       IN IF ex.raised
          THEN /\ pc' = "raised"
               /\ UNCHANGED <<left_idx, left_rows, row_i, moku_rows, right_setsu_list, hist>>
          ELSE /\ left_rows' = rows
               /\ right_setsu_list' = list
               /\ moku_rows' = mk
               /\ row_i' = 1
               /\ pc' = IF rows = <<>> THEN "load" ELSE "rows"
               /\ left_idx' = IF rows = <<>> THEN left_idx + 2 ELSE left_idx
               /\ hist' = [hist EXCEPT
                    !.loaded = Append(@, left_idx),
                    !.early = @ \cup
                      (IF mk = <<>> THEN {}
                       ELSE {list[k].id : k \in {j \in 1..Len(list) :
                               list[j].y_start < mk[1].y - CLAIM_MARGIN}})]
  /\ UNCHANGED <<end_page, num_pages, tree_vars, side_vars>>

\* line 268: the range is exhausted
EndOfRange ==
  /\ pc = "load" /\ ~InRange
  /\ pc' = "flush"
  /\ UNCHANGED <<left_idx, end_page, num_pages, left_rows, row_i, moku_rows,
                 right_setsu_list, tree_vars, hist, side_vars>>

\* lines 270-271: the right page is past the last page of the PDF
BreakPastLastPage ==
  /\ pc = "load" /\ InRange /\ left_idx + 1 >= num_pages
  /\ pc' = "flush"
  /\ UNCHANGED <<left_idx, end_page, num_pages, left_rows, row_i, moku_rows,
                 right_setsu_list, tree_vars, hist, side_vars>>

\* line 286: the row loop moves on; after the last row, so does the spread loop
Advance ==
  /\ row_i' = row_i + 1
  /\ pc' = IF row_i = Len(left_rows) THEN "load" ELSE "rows"
  /\ left_idx' = IF row_i = Len(left_rows) THEN left_idx + 2 ELSE left_idx
  /\ UNCHANGED <<end_page, num_pages, left_rows, moku_rows>>

\* the clauses still unclaimed after the spread's last row
Leftover(list) == IF row_i = Len(left_rows) THEN Ids(list) ELSE {}

\* line 291
KanNeverOpen(cur, name) == FALSE

KanIsOpen(cur, name) == cur # None /\ kans[cur[1]].name = name

\* lines 292-293
KeepResult(res, cur) == res

FlushOpenKan(res, cur) == IF cur # None THEN Append(res, cur[1]) ELSE res

\* line 300: the current section after a chapter was opened
KouKept(cur) == cur

KouOfNewKan(cur) == None

\* lines 289-300
KanHeaderRow ==
  /\ pc = "rows" /\ CurType.type = "kan_header"
  /\ LET kan_name == CurType.name[1]
     IN IF ~KanIsOpen(current_kan, kan_name)
        THEN /\ result' = FlushOpenKan(result, current_kan)
             /\ kans' = Append(kans, [name     |-> kan_name,
                                      honnendo |-> CurType.data[1].honnendo,
                                      kou      |-> <<>>])
             /\ current_kan' = Some(Len(kans) + 1)
             /\ current_kou' = KouOfNewKan(current_kou)
             /\ UNCHANGED kous
             /\ hist' = [hist EXCEPT !.dropped = @ \cup Leftover(right_setsu_list),
                                     !.kanLog = Append(@, <<>>)]
        ELSE /\ UNCHANGED tree_vars
             /\ hist' = [hist EXCEPT !.dropped = @ \cup Leftover(right_setsu_list)]
  /\ Advance
  /\ UNCHANGED <<right_setsu_list, side_vars>>

\* lines 306-310: the section of this name under the chapter, if any
NoExistingKou(refs, name) == None

ExistingKouAnywhere(refs, name) ==
  LET hit == {q \in 1..Len(kous) : kous[q].name = name}
  IN IF hit = {} THEN None ELSE Some(MinOf(hit))

ExistingKou(refs, name) ==
  LET hit == {k \in 1..Len(refs) : kous[refs[k]].name = name}
  IN IF hit = {} THEN None ELSE Some(refs[MinOf(hit)])

\* lines 302-321
KouHeaderRow ==
  /\ pc = "rows" /\ CurType.type = "kou_header"
  /\ LET kou_name == CurType.name[1]
     IN IF current_kan # None
        THEN LET k == current_kan[1]
                 existing == ExistingKou(kans[k].kou, kou_name)
             IN /\ IF existing = None
                   THEN /\ kous' = Append(kous, [name     |-> kou_name,
                                                 honnendo |-> CurType.data[1].honnendo,
                                                 moku     |-> <<>>])
                        /\ kans' = [kans EXCEPT ![k].kou = Append(@, Len(kous) + 1)]
                        /\ current_kou' = Some(Len(kous) + 1)
                   ELSE /\ current_kou' = existing
                        /\ UNCHANGED <<kans, kous>>
                /\ hist' = [hist EXCEPT
                     !.dropped = @ \cup Leftover(right_setsu_list),
                     !.kanLog[k] = IF \E j \in 1..Len(@) : @[j] = kou_name
                                   THEN @ ELSE Append(@, kou_name),
                     !.kouLog = IF existing = None THEN Append(@, <<>>) ELSE @]
        ELSE /\ UNCHANGED <<kans, kous, current_kou>>
             /\ hist' = [hist EXCEPT !.dropped = @ \cup Leftover(right_setsu_list)]
  /\ Advance
  /\ UNCHANGED <<result, current_kan, right_setsu_list, side_vars>>

\* lines 337-341: the y of the next item row of the spread, None for infinity
NoNextMokuY(mrows, row_y) == None

NextMokuY(mrows, row_y) ==
  LET later == {k \in 1..Len(mrows) : mrows[k].y > row_y}
  IN IF later = {} THEN None ELSE Some(mrows[MinOf(later)].y)

\* line 347
BeforeNextOnly(y_start, row_y, next_moku_y) ==
  next_moku_y = None \/ y_start < next_moku_y[1] - CLAIM_MARGIN

InClaimInterval(y_start, row_y, next_moku_y) ==
  /\ row_y - CLAIM_MARGIN <= y_start
  /\ (next_moku_y = None \/ y_start < next_moku_y[1] - CLAIM_MARGIN)

\* lines 344-351: [matched, remaining]
ClaimNearKeepAll(list, row_y, next_moku_y) ==
  LET Near(c) == row_y - CLAIM_MARGIN <= c.y_start
  IN [matched |-> SelectSeq(list, Near), remaining |-> list]

ClaimSplit(list, row_y, next_moku_y) ==
  LET In(c)  == InClaimInterval(c.y_start, row_y, next_moku_y)
      Out(c) == ~InClaimInterval(c.y_start, row_y, next_moku_y)
  IN [matched |-> SelectSeq(list, In), remaining |-> SelectSeq(list, Out)]

\* lines 356-363
SetsuEntry(s) ==
  [name     |-> s.name,
   kingaku  |-> s.kingaku,
   setsumei |-> IF SetsumeiTruthy(s.setsumei) THEN Some(s.setsumei) ELSE None,
   id       |-> s.id]

\* lines 365-366
PrependMoku(items, entry) == <<entry>> \o items

AppendMoku(items, entry) == Append(items, entry)

\* line 325: with no current section, lines 326-366 are skipped and the
\* list of unclaimed clauses stays as it is
ClaimedByOrphan(list, row_y, next_moku_y) == ClaimSplit(list, row_y, next_moku_y).remaining

UnclaimedByOrphan(list, row_y, next_moku_y) == list

\* lines 323-366
MokuRow ==
  /\ pc = "rows" /\ CurType.type = "moku"
  /\ IF current_kou # None
     THEN LET q     == current_kou[1]
              data  == CurType.data[1]
              split == ClaimSplit(right_setsu_list, CurRow.y, NextMokuY(moku_rows, CurRow.y))
              moku_entry ==
                [name     |-> CurType.name[1],
                 honnendo |-> data.honnendo,
                 zennendo |-> data.zennendo,
                 hikaku   |-> data.hikaku,
                 setsu    |-> IF split.matched # <<>>
                              THEN Some([k \in 1..Len(split.matched) |->
                                           SetsuEntry(split.matched[k])])
                              ELSE None]
          IN /\ right_setsu_list' = split.remaining
             /\ kous' = [kous EXCEPT ![q].moku = AppendMoku(@, moku_entry)]
             /\ hist' = [hist EXCEPT
                  !.dropped = @ \cup Leftover(split.remaining),
                  !.kouLog[q] = Append(@, [name |-> CurType.name[1], spread |-> left_idx,
                                            y |-> CurRow.y])]
     ELSE /\ right_setsu_list' =
               UnclaimedByOrphan(right_setsu_list, CurRow.y, NextMokuY(moku_rows, CurRow.y))
          /\ UNCHANGED kous
          /\ hist' = [hist EXCEPT !.dropped = @ \cup Leftover(right_setsu_list)]
  /\ Advance
  /\ UNCHANGED <<result, current_kan, current_kou, kans, side_vars>>

NoiseTypes == {"total", "header", "page_number", "empty", "unknown"}

\* the section reference after a row of type t that is no header and no item
ClosedByTotal(cur, t) == IF t = "total" THEN None ELSE cur

KouAfterOther(cur, t) == cur

\* lines 286-287 with none of the branches at 289, 302, 323 taken
OtherRow ==
  /\ pc = "rows" /\ CurType.type \in NoiseTypes
  /\ current_kou' = KouAfterOther(current_kou, CurType.type)
  /\ hist' = [hist EXCEPT !.dropped = @ \cup Leftover(right_setsu_list)]
  /\ Advance
  /\ UNCHANGED <<right_setsu_list, result, current_kan, kans, kous, side_vars>>

\* lines 368-371
Flush ==
  /\ pc = "flush"
  /\ result' = FlushOpenKan(result, current_kan)
  /\ pc' = "done"
  /\ UNCHANGED <<left_idx, end_page, num_pages, left_rows, row_i, moku_rows,
                 right_setsu_list, current_kan, current_kou, kans, kous, hist, side_vars>>

\* lines 263-266 and the first value of the loop variable, for
\* build_budget_structure(pdf, 1, end_page) on a PDF of num_pages pages
Init ==
  /\ pc = "load"
  /\ left_idx = 0
  /\ end_page \in 1..MaxPages
  /\ num_pages \in 0..MaxPages
  /\ left_rows = <<>> /\ row_i = 1 /\ moku_rows = <<>> /\ right_setsu_list = <<>>
  /\ result = <<>> /\ current_kan = None /\ current_kou = None
  /\ kans = <<>> /\ kous = <<>>
  /\ hist = NoHist
  /\ ClIdle /\ FnIdle /\ MainIdle

Next ==
  \/ LoadSpread
  \/ EndOfRange
  \/ BreakPastLastPage
  \/ KanHeaderRow
  \/ KouHeaderRow
  \/ MokuRow
  \/ OtherRow
  \/ Flush

Spec == Init /\ [][Next]_vars

(***************************************************************************)
(* identify_row_type applied to one text                                   *)
(***************************************************************************)
ClMaxTokens == 4

\* the fragments the texts are joined from; <<>> gives leading, trailing and
\* doubled spaces, the last fragment is three amounts
ClTokens ==
  { <<>>, <<"1">>, <<"F1", "kan">>, <<"1", "kou">>, <<"kei">>,
    <<"5", "sen", "en">>, HonNendo, <<"-">>, SenEn,
    <<"3", " ", "tri", "2", " ", "1">> }

ClTexts ==
  {Join(ts) : ts \in UNION {[1..n -> ClTokens] : n \in 0..ClMaxTokens}}

AsmIdle ==
  /\ pc = "off" /\ left_idx = 0 /\ end_page = 0 /\ num_pages = 0
  /\ left_rows = <<>> /\ row_i = 1 /\ moku_rows = <<>> /\ right_setsu_list = <<>>
  /\ result = <<>> /\ current_kan = None /\ current_kou = None
  /\ kans = <<>> /\ kous = <<>>
  /\ hist = NoHist

ClInit ==
  /\ AsmIdle /\ FnIdle /\ MainIdle
  /\ cl_pc = "in" /\ cl_text \in ClTexts /\ cl_out = None

Classify ==
  /\ cl_pc = "in"
  /\ cl_out' = Some(identify_row_type(cl_text))
  /\ cl_pc' = "out"
  /\ UNCHANGED <<cl_text, asm_vars, fn_vars, main_vars>>

ClNext == Classify

SpecClassify == ClInit /\ [][ClNext]_vars

(***************************************************************************)
(* parse_amount applied to one text                                        *)
(***************************************************************************)
AmMaxLen == 4

AmChars == {"1", "0", "F2", ",", "tri", "-", "+", "_", " ", "sen", "en", "x"}

AmTexts == UNION {[1..n -> AmChars] : n \in 0..AmMaxLen}

\* what a call returns: the value, or that an exception left the function
Returned(v) == Some([raised |-> FALSE, value |-> v])

AmInit ==
  /\ AsmIdle /\ ClIdle /\ MainIdle
  /\ fn_pc = "in" /\ fn_in \in AmTexts /\ fn_out = None

\* lines 202-210; the bare except of line 209 lets no exception out
ParseAmount ==
  /\ fn_pc = "in"
  /\ fn_out' = Returned(parse_amount(fn_in))
  /\ fn_pc' = "out"
  /\ UNCHANGED <<fn_in, asm_vars, cl_vars, main_vars>>

AmNext == ParseAmount

SpecAmount == AmInit /\ [][AmNext]_vars

(***************************************************************************)
(* main: build_budget_structure for the revenue pages, then for the        *)
(* expenditure pages, of one PDF (lines 384-395); then the same two calls  *)
(* again, taking turns between spreads                                     *)
(***************************************************************************)
\* lines 15-16, <<start_page, end_page>> of the revenue and of the
\* expenditure pages, for a PDF of eight pages
RunPages == << <<1, 4>>, <<5, 8>> >>

\* the spreads of the PDF: pages whose clause amounts are numbers
MainSpreads ==
  {SpreadOf(ClassifiedRows(extract_spread_rows(pp[1], pp[2])), extract_right_page_setsu(pp[2])) :
     pp \in { <<Page(<<Line(30, LeftLine.KanA), Line(60, LeftLine.KouP)>>),
                Page(<<Line(0, RightLine.C), Line(30, RightLine.D), Line(42, RightLine.C)>>)>>,
              <<Page(<<Line(30, LeftLine.MokuM), Line(60, LeftLine.MokuN)>>),
                Page(<<Line(0, RightLine.Unit), Line(30, RightLine.C), Line(42, RightLine.D),
                       Line(60, RightLine.C)>>)>>,
              <<Page(<<Line(30, LeftLine.KanB), Line(60, LeftLine.KouQ)>>), Page(<<>>)>>,
              <<Page(<<Line(30, LeftLine.Total), Line(60, LeftLine.MokuM)>>),
                Page(<<Line(42, RightLine.D), Line(60, RightLine.Text)>>)>> }}

\* the variables of the call in progress
Frame ==
  [pc |-> pc,
   left_idx |-> left_idx,
   end_page |-> end_page,
   num_pages |-> num_pages,
   left_rows |-> left_rows,
   row_i |-> row_i,
   moku_rows |-> moku_rows,
   right_setsu_list |-> right_setsu_list,
   result |-> result,
   current_kan |-> current_kan,
   current_kou |-> current_kou,
   kans |-> kans,
   kous |-> kous,
   hist |-> hist]

\* line 263: the tree a call begins with, whatever the calls before it built
LastTree(old) == old

EmptyTree(old) == [result |-> <<>>, kans |-> <<>>, kous |-> <<>>]

NoTree == [result |-> <<>>, kans |-> <<>>, kous |-> <<>>]

\* lines 263-268: the variables of build_budget_structure(pdf, start_page,
\* end) when the call begins, on a PDF of n pages
NewFrame(start_page, end, n, old) ==
  [pc |-> "load", left_idx |-> start_page - 1, end_page |-> end, num_pages |-> n,
   left_rows |-> <<>>, row_i |-> 1, moku_rows |-> <<>>, right_setsu_list |-> <<>>,
   result |-> EmptyTree(old).result, current_kan |-> None, current_kou |-> None,
   kans |-> EmptyTree(old).kans, kous |-> EmptyTree(old).kous, hist |-> NoHist]

\* line 388, line 392
CallOf(r, n, old) == NewFrame(RunPages[r][1], RunPages[r][2], n, old)

AtFrame(f) ==
  /\ pc = f.pc
  /\ left_idx = f.left_idx
  /\ end_page = f.end_page
  /\ num_pages = f.num_pages
  /\ left_rows = f.left_rows
  /\ row_i = f.row_i
  /\ moku_rows = f.moku_rows
  /\ right_setsu_list = f.right_setsu_list
  /\ result = f.result
  /\ current_kan = f.current_kan
  /\ current_kou = f.current_kou
  /\ kans = f.kans
  /\ kous = f.kous
  /\ hist = f.hist

Enter(f) ==
  /\ pc' = f.pc
  /\ left_idx' = f.left_idx
  /\ end_page' = f.end_page
  /\ num_pages' = f.num_pages
  /\ left_rows' = f.left_rows
  /\ row_i' = f.row_i
  /\ moku_rows' = f.moku_rows
  /\ right_setsu_list' = f.right_setsu_list
  /\ result' = f.result
  /\ current_kan' = f.current_kan
  /\ current_kou' = f.current_kou
  /\ kans' = f.kans
  /\ kous' = f.kous
  /\ hist' = f.hist

\* the returned tree: the chapters with their sections in place
TreeOf(res, ks, qs) ==
  [n \in 1..Len(res) |->
     [name |-> ks[res[n]].name, honnendo |-> ks[res[n]].honnendo,
      kou |-> [j \in 1..Len(ks[res[n]].kou) |-> qs[ks[res[n]].kou[j]]]]]

MainInit ==
  /\ ClIdle /\ FnIdle
  /\ pdf \in [1..(RunPages[2][2] \div 2) -> MainSpreads]
  /\ run = 1 /\ parked = None /\ seq_out = <<>> /\ sched = <<>>
  /\ \E n \in {RunPages[2][2] - 1, RunPages[2][2]} : AtFrame(CallOf(1, n, NoTree))

\* lines 388-392: the revenue call has returned; the expenditure call begins
SecondCall ==
  /\ run = 1 /\ parked = None /\ pc = "done"
  /\ seq_out' = <<TreeOf(result, kans, kous)>>
  /\ run' = 2
  /\ Enter(CallOf(2, num_pages, [result |-> result, kans |-> kans, kous |-> kous]))
  /\ UNCHANGED <<pdf, parked, sched, cl_vars, fn_vars>>

\* line 392 has returned; both calls begin again, the second one waiting
TakeTurns ==
  /\ run = 2 /\ parked = None /\ pc = "done"
  /\ seq_out' = Append(seq_out, TreeOf(result, kans, kous))
  /\ run' = 1
  /\ Enter(CallOf(1, num_pages, [result |-> result, kans |-> kans, kous |-> kous]))
  /\ parked' = Some(CallOf(2, num_pages, [result |-> result, kans |-> kans, kous |-> kous]))
  /\ UNCHANGED <<pdf, sched, cl_vars, fn_vars>>

\* lines 263-266: what a call goes on with after the other call has run:
\* its variables are locals of the call
ResumeSharedTree(f, cur) ==
  [f EXCEPT !.result = cur.result, !.current_kan = cur.current_kan,
            !.current_kou = cur.current_kou, !.kans = cur.kans, !.kous = cur.kous]

Resume(f, cur) == f

\* between two spreads (line 268) or after its return, the call in progress
\* waits and the other call goes on; a call that was given the turn takes
\* a step before it gives the turn back
Switch ==
  /\ parked # None /\ pc \in {"load", "done"} /\ parked[1].pc # "done"
  /\ IF sched = <<>> THEN TRUE ELSE sched[Len(sched)] # <<run, left_idx, pc>>
  /\ Enter(Resume(parked[1], Frame))
  /\ parked' = Some(Frame)
  /\ run' = 3 - run
  /\ sched' = Append(sched, <<3 - run, parked[1].left_idx, parked[1].pc>>)
  /\ UNCHANGED <<pdf, seq_out, cl_vars, fn_vars>>

MainNext ==
  \/ LoadSpread
  \/ EndOfRange
  \/ BreakPastLastPage
  \/ KanHeaderRow
  \/ KouHeaderRow
  \/ MokuRow
  \/ OtherRow
  \/ Flush
  \/ SecondCall
  \/ TakeTurns
  \/ Switch

SpecMain == MainInit /\ [][MainNext]_vars

(***************************************************************************)
(* The chapter dicts as Python values, and validate_json.py's validate_kan *)
(*   value       [t |-> "none"], [t |-> "int", n], [t |-> "str", s],       *)
(*               [t |-> "list", xs], [t |-> "dict", kv]; kv is the         *)
(*               sequence of <<key, value>> in insertion order             *)
(*   errors      a sequence of error kinds (the messages without paths)    *)
(***************************************************************************)
JStr(s) == [t |-> "str", s |-> s]

JDict(kv) == [t |-> "dict", kv |-> kv]

\* an amount: None or an int
JAmount(o) == IF o = None THEN [t |-> "none"] ELSE [t |-> "int", n |-> o[1]]

\* the keys of the dicts: 項 目 節 金額 説明 比較 本年度予算額 前年度予算額
Key ==
  [kou |-> JStr(<<"kou">>), moku |-> JStr(<<"moku">>), setsu |-> JStr(<<"setsu">>),
   kingaku |-> JStr(<<"kin", "gaku">>), setsumei |-> JStr(<<"toku", "mei">>),
   hikaku |-> JStr(<<"hi", "kaku">>), honnendo |-> JStr(HonNendo),
   zennendo |-> JStr(ZenNendo)]

\* extract_budget_v4.py lines 356-362: {節名: {金額, 説明?}}; the rationale
\* dict is kept as it is
SetsuDictFlat(s) ==
  JDict(<< <<Key.setsu, JStr(s.name)>>, <<Key.kingaku, JAmount(Some(s.kingaku))>> >>)

SetsuDict(s) ==
  JDict(<< <<JStr(s.name),
             JDict(<< <<Key.kingaku, JAmount(Some(s.kingaku))>> >>
                   \o (IF s.setsumei # None
                       THEN << <<Key.setsumei, [t |-> "dict", of |-> s.setsumei[1]]>> >>
                       ELSE <<>>))>> >>)

\* extract_budget_v4.py lines 328-332, 353-365: {目名: {amounts, 節?}}
MokuDict(m) ==
  JDict(<< <<JStr(m.name),
             JDict(<< <<Key.honnendo, JAmount(m.honnendo)>>,
                      <<Key.zennendo, JAmount(m.zennendo)>>,
                      <<Key.hikaku, JAmount(m.hikaku)>> >>
                   \o (IF m.setsu # None
                       THEN << <<Key.setsu,
                                 [t |-> "list",
                                  xs |-> [i \in 1..Len(m.setsu[1]) |-> SetsuDict(m.setsu[1][i])]]>> >>
                       ELSE <<>>))>> >>)

\* extract_budget_v4.py lines 312-317: {項名: {本年度予算額, 目}}
KouDict(q) ==
  JDict(<< <<JStr(kous[q].name),
             JDict(<< <<Key.honnendo, JAmount(kous[q].honnendo)>>,
                      <<Key.moku,
                        [t |-> "list",
                         xs |-> [i \in 1..Len(kous[q].moku) |-> MokuDict(kous[q].moku[i])]]>> >>)>> >>)

\* extract_budget_v4.py lines 293-298: {款名: {本年度予算額, 項}}
KanDict(k) ==
  JDict(<< <<JStr(kans[k].name),
             JDict(<< <<Key.honnendo, JAmount(kans[k].honnendo)>>,
                      <<Key.kou,
                        [t |-> "list",
                         xs |-> [j \in 1..Len(kans[k].kou) |-> KouDict(kans[k].kou[j])]]>> >>)>> >>)

\* key in d
JHas(d, key) == \E i \in 1..Len(d.kv) : d.kv[i][1] = key

\* d[key]
JGet(d, key) == d.kv[CHOOSE i \in 1..Len(d.kv) : d.kv[i][1] = key][2]

\* errors.extend over a list
RECURSIVE Flatten(_)
Flatten(seqs) == IF seqs = <<>> THEN <<>> ELSE seqs[1] \o Flatten(Tail(seqs))

\* validate_json.py lines 47-70: [valid, errors]
validate_named_item(item) ==
  IF item.t # "dict" THEN [valid |-> FALSE, errors |-> <<"not a dict">>]
  ELSE IF Len(item.kv) # 1 THEN [valid |-> FALSE, errors |-> <<"not a single key">>]
  ELSE [valid  |-> item.kv[1][2].t = "dict",
        errors |-> (IF item.kv[1][1].t # "str" THEN <<"name is not a string">> ELSE <<>>)
                   \o (IF item.kv[1][2].t # "dict" THEN <<"data is not a dict">> ELSE <<>>)]

\* validate_json.py lines 73-81
validate_amount(value, field, required) ==
  IF ~JHas(value, field) THEN (IF required THEN <<"amount is missing">> ELSE <<>>)
  ELSE IF JGet(value, field).t \notin {"none", "int"} THEN <<"amount is not an integer">>
  ELSE <<>>

\* validate_json.py lines 84-99
validate_setsu(setsu) ==
  validate_named_item(setsu).errors
  \o (IF validate_named_item(setsu).valid
      THEN validate_amount(setsu.kv[1][2], Key.kingaku, TRUE) ELSE <<>>)

\* the three optional amounts of a chapter, section or item
OptionalAmounts(data) ==
  validate_amount(data, Key.honnendo, FALSE) \o validate_amount(data, Key.zennendo, FALSE)
  \o validate_amount(data, Key.hikaku, FALSE)

\* validate_json.py lines 117-124
SetsuListErrors(data) ==
  IF ~JHas(data, Key.setsu) THEN <<>>
  ELSE IF JGet(data, Key.setsu).t # "list" THEN <<"clauses are not a list">>
  ELSE Flatten([i \in 1..Len(JGet(data, Key.setsu).xs) |->
                  validate_setsu(JGet(data, Key.setsu).xs[i])])

\* validate_json.py lines 102-126
validate_moku(moku) ==
  validate_named_item(moku).errors
  \o (IF validate_named_item(moku).valid
      THEN OptionalAmounts(moku.kv[1][2]) \o SetsuListErrors(moku.kv[1][2]) ELSE <<>>)

\* validate_json.py lines 144-151
MokuListErrors(data) ==
  IF ~JHas(data, Key.moku) THEN <<>>
  ELSE IF JGet(data, Key.moku).t # "list" THEN <<"items are not a list">>
  ELSE Flatten([i \in 1..Len(JGet(data, Key.moku).xs) |->
                  validate_moku(JGet(data, Key.moku).xs[i])])

\* validate_json.py lines 129-153
validate_kou(kou) ==
  validate_named_item(kou).errors
  \o (IF validate_named_item(kou).valid
      THEN OptionalAmounts(kou.kv[1][2]) \o MokuListErrors(kou.kv[1][2]) ELSE <<>>)

\* validate_json.py lines 178-186: the section list is required
KouListErrors(kan_data) ==
  IF ~JHas(kan_data, Key.kou) THEN <<"sections are missing">>
  ELSE IF JGet(kan_data, Key.kou).t # "list" THEN <<"sections are not a list">>
  ELSE Flatten([i \in 1..Len(JGet(kan_data, Key.kou).xs) |->
                  validate_kou(JGet(kan_data, Key.kou).xs[i])])

\* validate_json.py lines 156-188
validate_kan(data) ==
  IF data.t # "dict" THEN <<"root is not a dict">>
  ELSE IF Len(data.kv) # 1 THEN <<"root is not a single key">>
  ELSE IF data.kv[1][2].t # "dict" THEN <<"chapter data is not a dict">>
  ELSE OptionalAmounts(data.kv[1][2]) \o KouListErrors(data.kv[1][2])

(***************************************************************************)
(* Text acquisition: pdf_to_text.py's process_directory (one gs process    *)
(* per file, in a process pool) and split_budget_by_section.py's           *)
(* detect_kan_from_pdf (one gs process per page)                           *)
(*   fn_in    [fn, gs]: the function called and what the gs process of     *)
(*            each file or page does                                       *)
(*   gs       [kind, stdout, txt_ok]: kind "ok" (exit code 0), "nonzero",  *)
(*            "timeout" (subprocess.TimeoutExpired), "oserror" (gs cannot  *)
(*            be started); txt_ok: the .txt file can be written            *)
(*   fn_out   the locals of the call while it runs, then what it returned  *)
(***************************************************************************)
AcMaxItems == 3

GsOutcomes ==
  { [kind |-> "ok",      stdout |-> "1 kan A", txt_ok |-> TRUE],
    [kind |-> "ok",      stdout |-> "1 kan A", txt_ok |-> FALSE],
    [kind |-> "ok",      stdout |-> "",        txt_ok |-> TRUE],
    [kind |-> "nonzero", stdout |-> "",        txt_ok |-> TRUE],
    [kind |-> "nonzero", stdout |-> "1 k",     txt_ok |-> TRUE],
    [kind |-> "timeout", stdout |-> "",        txt_ok |-> TRUE],
    [kind |-> "oserror", stdout |-> "",        txt_ok |-> TRUE] }

Raised == Some([raised |-> TRUE, value |-> None])

\* pdf_to_text.py lines 22-47: [text, success]
pdf_to_text(gs) ==
  CASE gs.kind = "ok"      -> [text |-> gs.stdout, success |-> TRUE]
    [] gs.kind = "nonzero" -> [text |-> "Error: stderr", success |-> FALSE]
    [] gs.kind = "timeout" -> [text |-> "Error: Timeout", success |-> FALSE]
    [] gs.kind = "oserror" -> [text |-> "Error: oserror", success |-> FALSE]

\* pdf_to_text.py lines 50-67: [raised, success, written]; written is the
\* text of the .txt file, None when no file is written
process_single_pdf(gs) ==
  IF ~pdf_to_text(gs).success THEN [raised |-> FALSE, success |-> FALSE, written |-> None]
  ELSE IF ~gs.txt_ok THEN [raised |-> TRUE, success |-> FALSE, written |-> None]
  ELSE [raised |-> FALSE, success |-> TRUE, written |-> Some(pdf_to_text(gs).text)]

AcInit ==
  /\ AsmIdle /\ ClIdle /\ MainIdle
  /\ fn_pc = "in"
  /\ fn_in \in [fn : {"process_directory", "detect_kan_from_pdf"},
                gs : UNION {[1..n -> GsOutcomes] : n \in 0..AcMaxItems}]
  /\ fn_out = None

\* pdf_to_text.py lines 80-94: no file, or every file submitted to the pool
DirSubmit ==
  /\ fn_pc = "in" /\ fn_in.fn = "process_directory"
  /\ IF fn_in.gs = <<>>
     THEN fn_pc' = "out" /\ fn_out' = Returned([success |-> <<>>, failed |-> <<>>, written |-> <<>>])
     ELSE fn_pc' = "futures"
          /\ fn_out' = Some([pending |-> 1..Len(fn_in.gs), success |-> <<>>, failed |-> <<>>,
                             written |-> [f \in 1..Len(fn_in.gs) |-> None]])
  /\ UNCHANGED <<fn_in, asm_vars, cl_vars, main_vars>>

\* pdf_to_text.py lines 96-107: a future completes, in any order
DirFuture ==
  /\ fn_pc = "futures"
  /\ \E f \in fn_out[1].pending :
       fn_out' = Some([pending |-> fn_out[1].pending \ {f},
                       success |-> IF process_single_pdf(fn_in.gs[f]).success
                                   THEN Append(fn_out[1].success, f) ELSE fn_out[1].success,
                       failed  |-> IF process_single_pdf(fn_in.gs[f]).success
                                   THEN fn_out[1].failed ELSE Append(fn_out[1].failed, f),
                       written |-> [fn_out[1].written EXCEPT
                                      ![f] = process_single_pdf(fn_in.gs[f]).written]])
  /\ UNCHANGED <<fn_pc, fn_in, asm_vars, cl_vars, main_vars>>

\* pdf_to_text.py line 109
DirReturn ==
  /\ fn_pc = "futures" /\ fn_out[1].pending = {}
  /\ fn_pc' = "out"
  /\ fn_out' = Returned([success |-> fn_out[1].success, failed |-> fn_out[1].failed,
                         written |-> fn_out[1].written])
  /\ UNCHANGED <<fn_in, asm_vars, cl_vars, main_vars>>

\* split_budget_by_section.py lines 39-41
DetectBegin ==
  /\ fn_pc = "in" /\ fn_in.fn = "detect_kan_from_pdf"
  /\ fn_pc' = "pages"
  /\ fn_out' = Some([page |-> 1, texts |-> <<>>])
  /\ UNCHANGED <<fn_in, asm_vars, cl_vars, main_vars>>

\* split_budget_by_section.py lines 43-70: one page; subprocess.run raises
\* when gs times out or cannot be started, and nothing catches it; the exit
\* code is not read
DetectPage ==
  /\ fn_pc = "pages" /\ fn_out[1].page <= Len(fn_in.gs)
  /\ IF fn_in.gs[fn_out[1].page].kind \in {"timeout", "oserror"}
     THEN fn_pc' = "raised" /\ fn_out' = Raised
     ELSE fn_pc' = "pages"
          /\ fn_out' = Some([page  |-> fn_out[1].page + 1,
                             texts |-> Append(fn_out[1].texts, fn_in.gs[fn_out[1].page].stdout)])
  /\ UNCHANGED <<fn_in, asm_vars, cl_vars, main_vars>>

\* split_budget_by_section.py lines 72-82: the text each page gave stands
\* for the chapter positions found in it
DetectReturn ==
  /\ fn_pc = "pages" /\ fn_out[1].page > Len(fn_in.gs)
  /\ fn_pc' = "out"
  /\ fn_out' = Returned(fn_out[1].texts)
  /\ UNCHANGED <<fn_in, asm_vars, cl_vars, main_vars>>

AcNext ==
  \/ DirSubmit
  \/ DirFuture
  \/ DirReturn
  \/ DetectBegin
  \/ DetectPage
  \/ DetectReturn

SpecAcquire == AcInit /\ [][AcNext]_vars

(***************************************************************************)
(* extract_right_page_setsu applied to one right page                      *)
(***************************************************************************)
SetsuMaxLines == 3

\* the printed lines of the page: clause starts, free text, header rows, a
\* page number, a numbered name and amount with nothing after the amount
SetsuLineKinds ==
  { RightLine.C, RightLine.D, RightLine.Text, RightLine.Unit, RightLine.BadC,
    LeftLine.PageNo, << <<"1">>, <<"C">>, <<"7">> >> }

SetsuPages ==
  {Page(PickLines([k \in 1..SetsuMaxLines |-> 10 * k], f)) :
     f \in [1..SetsuMaxLines -> SetsuLineKinds \cup {<<>>}]}

SetsuInit ==
  /\ AsmIdle /\ ClIdle /\ MainIdle
  /\ fn_pc = "in" /\ fn_in \in SetsuPages /\ fn_out = None

\* lines 19-98: the call returns the list of line 96, or int() at line 71 or
\* 133 raises; groups is setsu_groups as line 85 leaves it
ExtractSetsu ==
  /\ fn_pc = "in"
  /\ fn_out' = Some([raised |-> extract_right_page_setsu(fn_in).raised,
                     value  |-> extract_right_page_setsu(fn_in).list,
                     groups |-> SetsuGroups(fn_in).groups])
  /\ fn_pc' = IF extract_right_page_setsu(fn_in).raised THEN "raised" ELSE "out"
  /\ UNCHANGED <<fn_in, asm_vars, cl_vars, main_vars>>

SpecSetsu == SetsuInit /\ [][ExtractSetsu]_vars

(***************************************************************************)
(* parse_setsumei_lines applied to the lines of one clause                 *)
(***************************************************************************)
RatMaxLines == 4

\* the lines of a clause named S: sub-items A and B, A once more with
\* another amount, the clause's own name with an amount, the two labels
\* with a value, free text
RatLineKinds ==
  { <<"A", " ", "1">>, <<"B", " ", "2">>, <<"A", " ", "3">>, <<"S", " ", "5">>,
    Choutei \o <<" ", "x">>, Santei \o <<" ", "z">>, <<"r">> }

RatInputs ==
  {[lines |-> l, setsu_name |-> <<"S">>] :
     l \in UNION {[1..n -> RatLineKinds] : n \in 0..RatMaxLines}}

RatInit ==
  /\ AsmIdle /\ ClIdle /\ MainIdle
  /\ fn_pc = "in" /\ fn_in \in RatInputs /\ fn_out = None

\* lines 101-158: the call returns the dict of line 158, or int() at line
\* 133 raises
ParseSetsumei ==
  /\ fn_pc = "in"
  /\ fn_out' = Some(parse_setsumei_lines(fn_in.lines, fn_in.setsu_name))
  /\ fn_pc' = IF parse_setsumei_lines(fn_in.lines, fn_in.setsu_name).raised
              THEN "raised" ELSE "out"
  /\ UNCHANGED <<fn_in, asm_vars, cl_vars, main_vars>>

SpecRationale == RatInit /\ [][ParseSetsumei]_vars

(***************************************************************************)
(* R6/extract_budget_v3.py: parse_right_setsu                              *)
(*   a clause: [setsu_mei, kingaku, setsumei_raw]; start and at are the    *)
(*   indices in parts of the token that started it and of its amount       *)
(***************************************************************************)
\* str.split(): the maximal runs of characters that are not whitespace
RECURSIVE SplitWords(_)
SplitWords(t) ==
  IF t = <<>> THEN <<>>
  ELSE IF IsSpace(t[1]) THEN SplitWords(Tail(t))
  ELSE <<SubSeq(t, 1, MinOf({e \in 1..Len(t) : e = Len(t) \/ IsSpace(t[e + 1])}))>>
       \o SplitWords(SubSeq(t, MinOf({e \in 1..Len(t) : e = Len(t) \/ IsSpace(t[e + 1])}) + 1,
                            Len(t)))

\* v3 line 93: parts[i].isdigit()
IsDigitToken(tok) == tok # <<>> /\ \A k \in 1..Len(tok) : IsDigit(tok[k])

\* v3 line 100: re.match(r'^[\d,]+$', parts[j])
IsAmountToken(tok) == tok # <<>> /\ \A k \in 1..Len(tok) : IsNumChar(tok[k])

\* v3 line 103 without the threshold of line 102
AmountAtAnyValue(tok) ==
  IsAmountToken(tok) /\ IntAccepts(RemoveAll(tok, <<",">>))

\* v3 lines 100-103: the token is taken as the amount
AmountAt(tok) ==
  /\ IsAmountToken(tok) /\ IntAccepts(RemoveAll(tok, <<",">>))
  /\ IntValue(RemoveAll(tok, <<",">>)) >= 100

\* v3 lines 99-107: the inner loop from j; int() of line 101 raises on a
\* token of commas only
RECURSIVE ScanName(_, _, _)
ScanName(parts, j, name_parts) ==
  IF j > Len(parts)
  THEN [raised |-> FALSE, j |-> j, name_parts |-> name_parts, amount |-> None]
  ELSE IF IsAmountToken(parts[j]) /\ ~IntAccepts(RemoveAll(parts[j], <<",">>))
  THEN [raised |-> TRUE, j |-> j, name_parts |-> name_parts, amount |-> None]
  ELSE IF AmountAt(parts[j])
  THEN [raised |-> FALSE, j |-> j, name_parts |-> name_parts,
        amount |-> Some(IntValue(RemoveAll(parts[j], <<",">>)) * 1000)]
  ELSE ScanName(parts, j + 1, Append(name_parts, parts[j]))

\* v3 lines 110-116
RightSetsu(parts, i, sc) ==
  [setsu_mei    |-> Flatten(sc.name_parts),
   kingaku      |-> sc.amount[1],
   setsumei_raw |-> IF sc.j + 1 <= Len(parts)
                    THEN Join(SubSeq(parts, sc.j + 1, Len(parts))) ELSE <<>>,
   start |-> i, at |-> sc.j]

\* v3 lines 92-121: the outer loop from i; sc: what the inner loop found
\* for the digit token at i
RECURSIVE ScanParts(_, _, _)
AfterScan(parts, i, results, sc) ==
  IF sc.raised THEN [raised |-> TRUE, results |-> <<>>]
  ELSE IF sc.name_parts # <<>> /\ sc.amount # None
  THEN ScanParts(parts, sc.j + 1, Append(results, RightSetsu(parts, i, sc)))
  ELSE ScanParts(parts, i + 1, results)

ScanParts(parts, i, results) ==
  IF i > Len(parts) THEN [raised |-> FALSE, results |-> results]
  ELSE IF IsDigitToken(parts[i])
  THEN AfterScan(parts, i, results, ScanName(parts, i + 1, <<>>))
  ELSE ScanParts(parts, i + 1, results)

\* v3 lines 84-123
parse_right_setsu(right_text) ==
  IF Strip(right_text) = <<>> THEN [raised |-> FALSE, results |-> <<>>]
  ELSE ScanParts(SplitWords(right_text), 1, <<>>)

RsMaxTokens == 6

\* the tokens of a row: a clause number (also a small number), a name, a
\* number below the threshold, the threshold written with a comma
RsTokens == { <<"1">>, <<"A">>, <<"9", "9">>, <<"1", ",", "0", "0">> }

\* rows with full-width digits, a token of commas only, doubled blanks
RsOddTexts ==
  { <<"F1", " ", "A", " ", "F3", "F0", "F0">>,
    <<"1", " ", "A", " ", ",", " ", "3", "0", "0">>,
    <<" ", "1", " ", " ", "A", " ", "3", "0", "0", " ", "r", " ">>,
    <<"2", " ", "B", "C", " ", "D", " ", "1", "2", ",", "3", "4", "5", " ", "r", " ", "s">> }

RsTexts ==
  {Join(p) : p \in UNION {[1..n -> RsTokens] : n \in 0..RsMaxTokens}} \cup RsOddTexts

RsInit ==
  /\ AsmIdle /\ ClIdle /\ MainIdle
  /\ fn_pc = "in" /\ fn_in \in RsTexts /\ fn_out = None

\* v3 lines 84-123: the call returns results, or int() of line 101 raises
ParseRightSetsu ==
  /\ fn_pc = "in"
  /\ fn_out' = Some([raised |-> parse_right_setsu(fn_in).raised,
                     value  |-> parse_right_setsu(fn_in).results])
  /\ fn_pc' = IF parse_right_setsu(fn_in).raised THEN "raised" ELSE "out"
  /\ UNCHANGED <<fn_in, asm_vars, cl_vars, main_vars>>

SpecRightSetsu == RsInit /\ [][ParseRightSetsu]_vars

(***************************************************************************)
(* extract_spread_rows applied to one pair of pages                        *)
(***************************************************************************)
SwMaxWords == 2

\* where a word can be: tops 6 and 18 are halfway between two keys, tops 18
\* and 29 have the same key
SwKinds ==
  { [top |-> 6, x0 |-> 30], [top |-> 18, x0 |-> 10],
    [top |-> 29, x0 |-> 30], [top |-> 29, x0 |-> 10] }

SwNames == <<"a", "b", "c", "d">>

\* the words of a page, each with a text of its own, in extraction order
SwWords(side, f) ==
  [k \in 1..Len(f) |->
     [text |-> <<side, SwNames[k]>>, x0 |-> f[k].x0, x1 |-> f[k].x0 + 5,
      top |-> f[k].top]]

SwPages(side) ==
  {[width |-> 100, words |-> SwWords(side, f)] :
     f \in UNION {[1..n -> SwKinds] : n \in 0..SwMaxWords}}

SwInit ==
  /\ AsmIdle /\ ClIdle /\ MainIdle
  /\ fn_pc = "in" /\ fn_out = None
  /\ fn_in \in {[left |-> l, right |-> r] : l \in SwPages("l"), r \in SwPages("r")}

\* lines 161-199: all_words as line 180 leaves it (and as v3 line 40 does),
\* and the rows returned
ExtractSpreadRows ==
  /\ fn_pc = "in"
  /\ fn_out' = Some([all_words    |-> SpreadWords(fn_in.left, fn_in.right),
                     all_words_v3 |-> SpreadWordsV3(fn_in.left, fn_in.right),
                     rows         |-> extract_spread_rows(fn_in.left, fn_in.right)])
  /\ fn_pc' = "out"
  /\ UNCHANGED <<fn_in, asm_vars, cl_vars, main_vars>>

SpecSpread == SwInit /\ [][ExtractSpreadRows]_vars

(***************************************************************************)
(* fix_json_format.py: convert_kan and what it calls                       *)
(*   a function that returns None or a dict gives None or Some(dict)       *)
(***************************************************************************)
JInt(n) == [t |-> "int", n |-> n]

JList(xs) == [t |-> "list", xs |-> xs]

\* the keys fix_json_format.py names: 款 名称 項名 目名 節名 名 名前 name,
\* 番号 項番号 目番号 節番号 コード code number, budget prev_budget
\* comparison 予算額, items targets
FxKey ==
  [kan |-> JStr(<<"kan">>),
   meishou |-> JStr(<<"mei", "shou">>), koumei |-> JStr(<<"kou", "mei">>),
   mokumei |-> JStr(<<"moku", "mei">>), setsu_mei |-> JStr(<<"setsu", "mei">>),
   mei |-> JStr(<<"mei">>), namae |-> JStr(<<"mei", "zen">>),
   name |-> JStr(<<"n", "a", "m", "e">>),
   bangou |-> JStr(<<"ban", "gou">>), koubangou |-> JStr(<<"kou", "ban", "gou">>),
   mokubangou |-> JStr(<<"moku", "ban", "gou">>),
   setsubangou |-> JStr(<<"setsu", "ban", "gou">>),
   koodo |-> JStr(<<"ko", "-", "do">>), code |-> JStr(<<"c", "o", "d", "e">>),
   number |-> JStr(<<"n", "u", "m", "b", "e", "r">>),
   budget |-> JStr(<<"b", "u", "d", "g", "e", "t">>),
   prev_budget |-> JStr(<<"p", "r", "e", "v", "_", "b", "u", "d", "g", "e", "t">>),
   comparison |-> JStr(<<"c", "o", "m", "p", "a", "r", "i", "s", "o", "n">>),
   yosangaku |-> JStr(<<"yo", "san", "gaku">>),
   items |-> JStr(<<"i", "t", "e", "m", "s">>),
   targets |-> JStr(<<"t", "a", "r", "g", "e", "t", "s">>)]

\* d[key] = v: a key that is there keeps its place
DictSet(kv, key, v) ==
  IF \E i \in 1..Len(kv) : kv[i][1] = key
  THEN [i \in 1..Len(kv) |-> IF kv[i][1] = key THEN <<key, v>> ELSE kv[i]]
  ELSE Append(kv, <<key, v>>)

\* d.pop(key) of a key that is there: what is left
DictDel(kv, key) == LET Other(e) == e[1] # key IN SelectSeq(kv, Other)

\* d[new] = d.pop(old)
DictMove(kv, old, new) ==
  DictSet(DictDel(kv, old), new, JGet(JDict(kv), old))

\* lines 18-22: the first name key whose value is a str, else None
name_keys ==
  <<FxKey.meishou, FxKey.koumei, FxKey.mokumei, FxKey.setsu_mei, FxKey.mei,
    FxKey.namae, FxKey.name>>

get_name(item) ==
  LET hit == {k \in 1..Len(name_keys) :
                JHas(item, name_keys[k]) /\ JGet(item, name_keys[k]).t = "str"}
  IN IF hit = {} THEN None ELSE Some(JGet(item, name_keys[MinOf(hit)]).s)

\* lines 27-29
meta_keys ==
  {FxKey.bangou, FxKey.koubangou, FxKey.mokubangou, FxKey.setsubangou, FxKey.koodo,
   FxKey.code, FxKey.number} \cup {name_keys[k] : k \in 1..Len(name_keys)}

remove_meta_keys(item) ==
  LET Kept(e) == e[1] \notin meta_keys IN JDict(SelectSeq(item.kv, Kept))

\* lines 34-40
KeyMapping(k) ==
  CASE k = FxKey.budget      -> Key.honnendo
    [] k = FxKey.prev_budget -> Key.zennendo
    [] k = FxKey.comparison  -> Key.hikaku
    [] k = FxKey.yosangaku   -> Key.honnendo
    [] OTHER                 -> k

\* lines 41-45
RECURSIVE NormalizeInto(_, _)
NormalizeInto(acc, kv) ==
  IF kv = <<>> THEN acc
  ELSE NormalizeInto(DictSet(acc, KeyMapping(kv[1][1]), kv[1][2]), Tail(kv))

normalize_amount_keys(item) == JDict(NormalizeInto(<<>>, item.kv))

\* `if not name`: None and the empty string
NoName(name) == name = None \/ name[1] = <<>>

\* lines 56-70 for the normalized dict
SetsuNamed(setsu) ==
  IF ~NoName(get_name(setsu))
  THEN (IF JHas(remove_meta_keys(setsu), Key.kingaku)
        THEN Some(JDict(<< <<JStr(get_name(setsu)[1]), remove_meta_keys(setsu)>> >>))
        ELSE None)
  ELSE IF JHas(setsu, Key.setsumei) /\ JGet(setsu, Key.setsumei).t = "str"
  THEN (IF JHas(remove_meta_keys(JDict(DictDel(setsu.kv, Key.setsumei))), Key.kingaku)
        THEN Some(JDict(<< <<JGet(setsu, Key.setsumei),
                             remove_meta_keys(JDict(DictDel(setsu.kv, Key.setsumei)))>> >>))
        ELSE None)
  ELSE None

\* lines 48-70
convert_setsu(setsu) ==
  IF setsu.t # "dict" THEN None ELSE SetsuNamed(normalize_amount_keys(setsu))

\* lines 88-90, 116-119, 145-147, 160-162: the list under key with every
\* element replaced by its conversion and the None ones left out
WithSetsuList(data) ==
  IF JHas(data, Key.setsu) /\ JGet(data, Key.setsu).t = "list"
  THEN JDict(DictSet(data.kv, Key.setsu,
         JList(Flatten([i \in 1..Len(JGet(data, Key.setsu).xs) |->
                          convert_setsu(JGet(data, Key.setsu).xs[i])]))))
  ELSE data

\* lines 73-92
convert_moku(moku) ==
  IF moku.t # "dict" THEN None
  ELSE IF NoName(get_name(normalize_amount_keys(moku))) THEN None
  ELSE Some(JDict(<< <<JStr(get_name(normalize_amount_keys(moku))[1]),
                       WithSetsuList(remove_meta_keys(normalize_amount_keys(moku)))>> >>))

WithMokuList(data) ==
  IF ~JHas(data, Key.moku) THEN data
  ELSE IF JGet(data, Key.moku).t = "list"
  THEN JDict(DictSet(data.kv, Key.moku,
         JList(Flatten([i \in 1..Len(JGet(data, Key.moku).xs) |->
                          convert_moku(JGet(data, Key.moku).xs[i])]))))
  ELSE IF JGet(data, Key.moku).t = "int" THEN JDict(DictDel(data.kv, Key.moku))
  ELSE data

\* lines 104-107
KouRenamed(kou) ==
  LET a == IF JHas(kou, FxKey.items)
           THEN JDict(DictMove(kou.kv, FxKey.items, Key.kou)) ELSE kou
  IN IF JHas(a, FxKey.targets) THEN JDict(DictMove(a.kv, FxKey.targets, Key.moku)) ELSE a

\* lines 95-124
convert_kou(kou) ==
  IF kou.t # "dict" THEN None
  ELSE IF NoName(get_name(KouRenamed(normalize_amount_keys(kou)))) THEN None
  ELSE Some(JDict(<< <<JStr(get_name(KouRenamed(normalize_amount_keys(kou)))[1]),
                       WithMokuList(remove_meta_keys(
                         KouRenamed(normalize_amount_keys(kou))))>> >>))

WithKouList(data) ==
  IF JHas(data, Key.kou) /\ JGet(data, Key.kou).t = "list"
  THEN JDict(DictSet(data.kv, Key.kou,
         JList(Flatten([i \in 1..Len(JGet(data, Key.kou).xs) |->
                          convert_kou(JGet(data, Key.kou).xs[i])]))))
  ELSE data

\* lines 131-149 for the dict under 款: items becomes 項
KanRenamed(kan_data) ==
  IF JHas(kan_data, FxKey.items)
  THEN JDict(DictMove(kan_data.kv, FxKey.items, Key.kou)) ELSE kan_data

\* lines 127-166; a chapter that is no dict makes line 43 raise
convert_kan(data) ==
  IF JHas(data, FxKey.kan) /\ Len(data.kv) = 1
  THEN (IF JGet(data, FxKey.kan).t # "dict" THEN Some([t |-> "raised"])
        ELSE IF NoName(get_name(KanRenamed(normalize_amount_keys(JGet(data, FxKey.kan)))))
        THEN None
        ELSE Some(JDict(<< <<JStr(get_name(KanRenamed(
                                normalize_amount_keys(JGet(data, FxKey.kan))))[1]),
                             WithKouList(remove_meta_keys(KanRenamed(
                               normalize_amount_keys(JGet(data, FxKey.kan)))))>> >>)))
  ELSE IF Len(data.kv) = 1
  THEN (IF data.kv[1][2].t # "dict" THEN Some([t |-> "raised"])
        ELSE Some(JDict(<< <<data.kv[1][1],
                             WithKouList(normalize_amount_keys(data.kv[1][2]))>> >>)))
  ELSE Some(data)

FxMaxKou == 2

\* clauses, an item and sections as the files hold them: with a name field
\* (the form to convert from) and with the name as the only key (the form
\* to convert to)
FxSetsu ==
  [flat   |-> JDict(<< <<FxKey.setsu_mei, JStr(<<"C">>)>>, <<FxKey.setsubangou, JInt(1)>>,
                       <<Key.kingaku, JInt(7)>> >>),
   told   |-> JDict(<< <<Key.setsumei, JStr(<<"D">>)>>, <<Key.kingaku, JInt(8)>> >>),
   bare   |-> JDict(<< <<FxKey.setsu_mei, JStr(<<"E">>)>> >>),
   keyed  |-> JDict(<< <<JStr(<<"C">>), JDict(<< <<Key.kingaku, JInt(7)>> >>)>> >>)]

FxMoku ==
  [flat  |-> JDict(<< <<FxKey.mokumei, JStr(<<"M">>)>>, <<FxKey.budget, JInt(1)>>,
                      <<Key.setsu, JList(<<FxSetsu.flat, FxSetsu.told, FxSetsu.bare>>)>> >>),
   keyed |-> JDict(<< <<JStr(<<"M">>),
                        JDict(<< <<Key.honnendo, JInt(1)>>,
                                 <<Key.setsu, JList(<<FxSetsu.keyed>>)>> >>)>> >>),
   named |-> JDict(<< <<FxKey.mei, JStr(<<"N">>)>> >>)]

FxKous ==
  { JDict(<< <<FxKey.koumei, JStr(<<"P">>)>>, <<FxKey.koubangou, JInt(1)>>,
             <<FxKey.yosangaku, JInt(3)>>, <<Key.moku, JList(<<FxMoku.flat>>)>> >>),
    JDict(<< <<JStr(<<"P">>),
               JDict(<< <<Key.honnendo, JInt(3)>>,
                        <<Key.moku, JList(<<FxMoku.keyed>>)>> >>)>> >>),
    JDict(<< <<FxKey.name, JStr(<<"Q">>)>>, <<FxKey.targets, JList(<<FxMoku.named>>)>> >>),
    JDict(<< <<FxKey.koumei, JStr(<<"Q">>)>>, <<Key.moku, JInt(2)>> >>),
    JDict(<< <<FxKey.koumei, JStr(<<"P">>)>>, <<Key.moku, JList(<<FxMoku.keyed>>)>> >>),
    JStr(<<"x">>) }

FxKouLists == UNION {[1..n -> FxKous] : n \in 0..FxMaxKou}

\* the files: a chapter under 款 with a name field, the same with items
\* and budget, one without a name, and a chapter under its own name
FxInputs ==
  {JDict(<< <<FxKey.kan, JDict(<< <<FxKey.meishou, JStr(<<"A">>)>>,
                                  <<Key.honnendo, JInt(5)>>,
                                  <<Key.kou, JList(l)>> >>)>> >>) : l \in FxKouLists}
  \cup {JDict(<< <<FxKey.kan, JDict(<< <<FxKey.meishou, JStr(<<"A">>)>>,
                                       <<FxKey.bangou, JInt(1)>>,
                                       <<FxKey.budget, JInt(5)>>,
                                       <<FxKey.items, JList(l)>> >>)>> >>) : l \in FxKouLists}
  \cup {JDict(<< <<FxKey.kan, JDict(<< <<Key.kou, JList(l)>> >>)>> >>) : l \in FxKouLists}
  \cup {JDict(<< <<JStr(<<"A">>), JDict(<< <<Key.honnendo, JInt(5)>>,
                                          <<Key.kou, JList(l)>> >>)>> >>) : l \in FxKouLists}

FxInit ==
  /\ AsmIdle /\ ClIdle /\ MainIdle
  /\ fn_pc = "in" /\ fn_in \in FxInputs /\ fn_out = None

\* fix_file, lines 173-181: the file is replaced by convert_kan of what it
\* held; when convert_kan returns None the file is left as it was (176-178)
FixFile ==
  /\ fn_pc = "in"
  /\ fn_out' = Some([first |-> convert_kan(fn_in), second |-> None])
  /\ fn_pc' = IF convert_kan(fn_in) = None THEN "failed" ELSE "once"
  /\ UNCHANGED <<fn_in, asm_vars, cl_vars, main_vars>>

\* fix_file on the file it wrote
FixFileAgain ==
  /\ fn_pc = "once"
  /\ fn_out' = Some([first |-> fn_out[1].first, second |-> convert_kan(fn_out[1].first[1])])
  /\ fn_pc' = "twice"
  /\ UNCHANGED <<fn_in, asm_vars, cl_vars, main_vars>>

FxNext == FixFile \/ FixFileAgain

SpecFix == FxInit /\ [][FxNext]_vars

(***************************************************************************)
(* Properties                                                              *)
(***************************************************************************)
\* the chapters of the output: the result list and the open chapter
OutputKans ==
  {result[i] : i \in 1..Len(result)} \cup (IF current_kan = None THEN {} ELSE {current_kan[1]})

ClausesOf(item) == IF item.setsu = None THEN <<>> ELSE item.setsu[1]

\* the places <<chapter, section index, item index, clause index>> of the
\* output tree that hold a clause
ClausePlaces ==
  UNION {UNION {UNION {{<<k, j, i, n>> :
                          n \in 1..Len(ClausesOf(kous[kans[k].kou[j]].moku[i]))} :
                       i \in 1..Len(kous[kans[k].kou[j]].moku)} :
                j \in 1..Len(kans[k].kou)} :
         k \in OutputKans}

ClauseAt(p) == ClausesOf(kous[kans[p[1]].kou[p[2]]].moku[p[3]])[p[4]]

TreeIds == {ClauseAt(p).id : p \in ClausePlaces}

\* the row processed last, while its spread is the current one
HasPrev  == row_i > 1 /\ row_i - 1 <= Len(left_rows)
PrevRow  == left_rows[row_i - 1]
PrevType == PrevRow.cls

\* C1: every extracted clause is at no more than one place of the output
\* tree: not under two items, and not twice under one item.
C1_ClauseAtMostOnce ==
  \A p1 \in ClausePlaces : \A p2 \in ClausePlaces :
    ClauseAt(p1).id = ClauseAt(p2).id => p1 = p2

C1_Witness ==
  /\ pc = "done"
  /\ \E p1 \in ClausePlaces : \E p2 \in ClausePlaces :
       /\ <<p1[1], p1[2], p1[3]>> # <<p2[1], p2[2], p2[3]>>
       /\ ClauseAt(p1).id[1] = ClauseAt(p2).id[1]
  /\ \E p \in ClausePlaces : p[4] = 2

\* C2 as claimed: the clauses no item claimed are still pending when the
\* next spread is processed.
C2_CarriedForward ==
  [][(pc = "load" /\ pc' \in {"load", "rows"})
       => Ids(right_setsu_list) \subseteq Ids(right_setsu_list')]_vars

\* C2 amended: the clauses no item claimed are not carried forward; while
\* the rows of a spread are processed, the pending clauses are clauses of
\* that spread's right page only, and every clause under an item comes from
\* the spread of that item's row.
C2_PendingOfCurrentSpread ==
  /\ pc = "rows" => \A c \in Ids(right_setsu_list) : c[1] = left_idx
  /\ \A q \in 1..Len(kous) : \A i \in 1..Len(kous[q].moku) :
       \A n \in 1..Len(ClausesOf(kous[q].moku[i])) :
         /\ i <= Len(hist.kouLog[q])
         /\ ClausesOf(kous[q].moku[i])[n].id[1] = hist.kouLog[q][i].spread

C2_Witness ==
  /\ pc = "rows" /\ right_setsu_list # <<>>
  /\ \E c \in hist.dropped : c[1] < left_idx
  /\ \E q \in 1..Len(kous) : kous[q].moku # <<>>

\* C3: a clause whose anchor lies before the first item row of its spread
\* minus the margin, and a clause still unclaimed when the rows of its
\* spread are exhausted, is not in the output tree; with such clauses
\* pending after the last row the run goes on (to the next spread or to the
\* end of the range).
C3_DroppedAbsent ==
  /\ (hist.early \cup hist.dropped) \cap TreeIds = {}
  /\ pc \in {"load", "flush", "done"} => Ids(right_setsu_list) \subseteq hist.dropped
  /\ (pc = "load" /\ right_setsu_list # <<>>) =>
       ENABLED (LoadSpread \/ EndOfRange \/ BreakPastLastPage)

C3_Witness ==
  /\ pc = "done"
  /\ hist.early # {}
  /\ hist.dropped \ hist.early # {}
  /\ TreeIds # {}

\* C4: the result list followed by the open chapter is the chapters in the
\* order in which they were opened, each once; when the run is over, with
\* or without the early stop, the result list alone is.
C4_ChaptersOnceInOrder ==
  LET opened == [k \in 1..Len(kans) |-> k]
      open   == IF current_kan = None THEN <<>> ELSE <<current_kan[1]>>
  IN IF pc = "done" THEN result = opened ELSE result \o open = opened

C4_Witness ==
  /\ pc = "done" /\ InRange
  /\ Len(result) >= 2

\* C5: the sections of a chapter have pairwise distinct names; after a
\* section-header row processed with a chapter open, the current section is
\* the one section of that name under the open chapter.
C5_SectionNamesDistinct ==
  /\ \A k \in 1..Len(kans) : \A i \in 1..Len(kans[k].kou) : \A j \in 1..Len(kans[k].kou) :
       kous[kans[k].kou[i]].name = kous[kans[k].kou[j]].name => i = j
  /\ (HasPrev /\ PrevType.type = "kou_header" /\ current_kan # None) =>
       /\ current_kou # None
       /\ kous[current_kou[1]].name = PrevType.name[1]
       /\ \E j \in 1..Len(kans[current_kan[1]].kou) :
            kans[current_kan[1]].kou[j] = current_kou[1]

C5_Witness ==
  /\ HasPrev /\ PrevType.type = "kou_header"
  /\ current_kan # None /\ current_kou # None
  /\ kous[current_kou[1]].moku # <<>>
  /\ Len(kans[current_kan[1]].kou) = 1

\* C6: a row classified total, header, page_number, empty or unknown leaves
\* the result list, the open chapter, its sections and items, the current
\* section and the list of unclaimed clauses unchanged.
C6_NoiseRowsChangeNothing ==
  [][(pc = "rows" /\ CurType.type \in NoiseTypes)
       => UNCHANGED <<tree_vars, right_setsu_list>>]_vars

C6_Witness ==
  /\ HasPrev /\ PrevType.type = "total"
  /\ current_kou # None /\ kous[current_kou[1]].moku # <<>>
  /\ right_setsu_list # <<>>

\* C7: a section-header row with no chapter open, and an item row with no
\* section open, leave the tree, the open chapter, the current section and
\* the list of unclaimed clauses unchanged.
C7_OrphansDropped ==
  [][(/\ pc = "rows"
      /\ \/ CurType.type = "kou_header" /\ current_kan = None
         \/ CurType.type = "moku" /\ current_kou = None)
       => UNCHANGED <<tree_vars, right_setsu_list>>]_vars

C7_Witness ==
  /\ HasPrev /\ PrevType.type = "moku" /\ current_kou = None
  /\ \E k \in 1..Len(right_setsu_list) :
       InClaimInterval(right_setsu_list[k].y_start, PrevRow.y,
                       NextMokuY(moku_rows, PrevRow.y))

\* C8: the sections of a chapter are in the order in which their names were
\* first seen, and the items of a section are the item rows processed while
\* it was current, one node per row, in the order of processing.
C8_FirstSeenOrder ==
  /\ \A k \in 1..Len(kans) :
       [j \in 1..Len(kans[k].kou) |-> kous[kans[k].kou[j]].name] = hist.kanLog[k]
  /\ \A q \in 1..Len(kous) :
       [i \in 1..Len(kous[q].moku) |-> kous[q].moku[i].name]
         = [i \in 1..Len(hist.kouLog[q]) |-> hist.kouLog[q][i].name]

C8_Witness ==
  \E q \in 1..Len(kous) :
    /\ Len(kous[q].moku) = 2
    /\ kous[q].moku[1].name = <<"N">> /\ kous[q].moku[2].name = <<"M">>
    /\ hist.kouLog[q][1].spread = hist.kouLog[q][2].spread

\* C9: the core never raises.
C9_NeverRaises == pc # "raised"

(***************************************************************************)
(* C10: the rules of identify_row_type in their order of precedence        *)
(***************************************************************************)
RowTags ==
  {"empty", "header", "page_number", "kan_header", "kou_header", "total", "moku", "unknown"}

RuleOrder == <<"empty", "header", "page_number", "kan_header", "kou_header", "total", "moku">>

RuleMatches(tag, t) ==
  CASE tag = "empty"       -> t = <<>>
    [] tag = "header"      -> IsHeaderText(t)
    [] tag = "page_number" -> PageNumberMatch(t)
    [] tag = "kan_header"  -> KanMatch(t).ok
    [] tag = "kou_header"  -> KouMatch(t).ok
    [] tag = "total"       -> TotalMatch(t).ok
    [] tag = "moku"        -> MokuMatch(t).ok

MatchingRules(t) == {i \in 1..Len(RuleOrder) : RuleMatches(RuleOrder[i], t)}

\* C10: the tag is one of the eight, and it is the tag of the first rule,
\* in the order of precedence, that the stripped text matches (unknown when
\* it matches none).
C10_FirstMatchWins ==
  cl_pc = "out" =>
    /\ cl_out[1].type \in RowTags
    /\ cl_out[1].type =
         (IF MatchingRules(Strip(cl_text)) = {} THEN "unknown"
          ELSE RuleOrder[MinOf(MatchingRules(Strip(cl_text)))])

C10_Witness ==
  /\ cl_pc = "out"
  /\ cl_out[1].type = "header"
  /\ KanMatch(Strip(cl_text)).ok

\* what is left of the text once the thousands separators and the unit suffix
\* are taken out, the negation glyph reads as a minus sign and the
\* surrounding blanks are gone
C11_Cleaned(text) ==
  LET NotComma(c) == c # ","
      noComma == SelectSeq(text, NotComma)
  IN Strip(RemoveAll([k \in 1..Len(noComma) |->
                        IF noComma[k] = "tri" THEN "-" ELSE noComma[k]], SenEn))

\* the digits of an integer literal after its sign
C11_Body(c) == IF c # <<>> /\ c[1] \in {"-", "+"} THEN Tail(c) ELSE c

\* an integer literal: an optional sign, then digits, single underscores
\* allowed between two digits
C11_IsInteger(c) ==
  /\ C11_Body(c) # <<>>
  /\ \A k \in 1..Len(C11_Body(c)) :
       \/ IsDigit(C11_Body(c)[k])
       \/ /\ C11_Body(c)[k] = "_" /\ 1 < k /\ k < Len(C11_Body(c))
          /\ IsDigit(C11_Body(c)[k - 1]) /\ IsDigit(C11_Body(c)[k + 1])

\* the number the digits print, most significant digit first
RECURSIVE C11_Printed(_, _)
C11_Printed(ds, acc) ==
  IF ds = <<>> THEN acc ELSE C11_Printed(Tail(ds), 10 * acc + DigitVal(ds[1]))

C11_Expected(c) ==
  IF ~C11_IsInteger(c) THEN None
  ELSE IF c[1] = "-" THEN Some(0 - 1000 * C11_Printed(SelectSeq(C11_Body(c), IsDigit), 0))
  ELSE Some(1000 * C11_Printed(SelectSeq(C11_Body(c), IsDigit), 0))

\* C11: parse_amount raises for no text; it returns 1000 times the integer
\* the cleaned text prints (negative after a minus sign or the negation
\* glyph) and null for every text that does not clean to an integer, the
\* empty text included.
C11_ThousandsOrNull ==
  fn_pc = "out" =>
    /\ ~fn_out[1].raised
    /\ fn_out[1].value = C11_Expected(C11_Cleaned(fn_in))

\* a negated amount with its unit suffix and a separator
C11_Witness ==
  /\ fn_pc = "out" /\ fn_in = <<"tri", "1", ",", "0">>
  /\ fn_out = Returned(Some(0 - 10000))

\* the 1-indexed pages the extracted spreads are made of
C12_PagesOf(k) == {hist.loaded[k] + 1, hist.loaded[k] + 2}

\* C12: the spreads are extracted in ascending page order, (1, 2), (3, 4),
\* ..., and when the run has returned every page of the PDF from page 1 to
\* end_page has been the left or right page of exactly one of them.
C12_EveryPageOfRangeOnce ==
  /\ \A k \in 1..Len(hist.loaded) : hist.loaded[k] = 2 * (k - 1)
  /\ pc = "done" =>
       \A p \in 1..end_page :
         p <= num_pages => Cardinality({k \in 1..Len(hist.loaded) : p \in C12_PagesOf(k)}) = 1

\* the spreads are extracted in ascending page order, in pairs from page 1
C12_AscendingPairs ==
  \A k \in 1..Len(hist.loaded) : hist.loaded[k] = 2 * (k - 1)

\* a run over pages 1..3 of a PDF that has page 3 has returned with only
\* the spread (1, 2) extracted
C12_LastPageSkipped ==
  /\ pc = "done" /\ end_page = 3 /\ num_pages >= 3
  /\ hist.loaded = <<0>>

\* the tree of call r: of the call in progress, or of the waiting one
C13_TreeOfCall(r) ==
  IF run = r THEN TreeOf(result, kans, kous)
  ELSE TreeOf(parked[1].result, parked[1].kans, parked[1].kous)

\* C13: when the revenue call and the expenditure call take turns between
\* spreads, in any order of turns, each returns the tree it returned when
\* the two calls ran one after the other.
C13_SameTreesInAnyOrder ==
  (parked # None /\ pc = "done" /\ parked[1].pc = "done") =>
    /\ C13_TreeOfCall(1) = seq_out[1]
    /\ C13_TreeOfCall(2) = seq_out[2]

\* both calls have returned trees with chapters, and each gave the turn to
\* the other between its two spreads
C13_Witness ==
  /\ parked # None /\ pc = "done" /\ parked[1].pc = "done"
  /\ seq_out[1] # <<>> /\ seq_out[2] # <<>> /\ seq_out[1] # seq_out[2]
  /\ \E i \in 1..Len(sched) : sched[i] = <<1, 2, "load">>
  /\ \E i \in 1..Len(sched) : sched[i] = <<2, 6, "load">>

C15_ResultValidates ==
  \A n \in 1..Len(result) : validate_kan(KanDict(result[n])) = <<>>

\* a returned tree whose first chapter has a section with an item that has
\* a clause
C15_Witness ==
  /\ pc = "done" /\ result # <<>>
  /\ validate_kan(KanDict(result[1])) = <<>>
  /\ \E p \in ClausePlaces : p[1] = result[1]

\* a file or page whose gs process timed out or failed
C16_Failed(gs) == gs.kind # "ok"

\* C16: no call is ended by an exception; a returned process_directory has
\* completed every file and written no text for a file whose extraction
\* timed out or failed; a returned detect_kan_from_pdf has read every page
\* and got no text from a page whose extraction timed out or failed.
C16_FailuresDoNotAbort ==
  /\ fn_pc # "raised"
  /\ (fn_pc = "out" /\ fn_in.fn = "process_directory") =>
       \A f \in 1..Len(fn_in.gs) :
         /\ \E i \in 1..Len(fn_out[1].value.success \o fn_out[1].value.failed) :
              (fn_out[1].value.success \o fn_out[1].value.failed)[i] = f
         /\ C16_Failed(fn_in.gs[f]) => fn_out[1].value.written[f] = None
  /\ (fn_pc = "out" /\ fn_in.fn = "detect_kan_from_pdf") =>
       /\ Len(fn_out[1].value) = Len(fn_in.gs)
       /\ \A q \in 1..Len(fn_in.gs) : C16_Failed(fn_in.gs[q]) => fn_out[1].value[q] = ""

\* the part about process_directory: it is never ended by an exception,
\* completes every file and writes no text for a failed one
C16_DirectoryCompletes ==
  fn_in.fn = "process_directory" =>
    /\ fn_pc # "raised"
    /\ fn_pc = "out" =>
         \A f \in 1..Len(fn_in.gs) :
           /\ \E i \in 1..Len(fn_out[1].value.success \o fn_out[1].value.failed) :
                (fn_out[1].value.success \o fn_out[1].value.failed)[i] = f
           /\ C16_Failed(fn_in.gs[f]) => fn_out[1].value.written[f] = None

\* detect_kan_from_pdf on three pages has been ended by the time-out of the
\* gs process of page 1: pages 2 and 3, which have text, were never read
C16_TimeoutAborts ==
  /\ fn_pc = "raised" /\ fn_in.fn = "detect_kan_from_pdf"
  /\ Len(fn_in.gs) = 3 /\ fn_in.gs[1].kind = "timeout"
  /\ fn_in.gs[2].kind = "ok" /\ fn_in.gs[3].kind = "ok"

\* the y of the item rows of the current spread below the current row
C17_LaterItemYs ==
  {left_rows[k].y : k \in {j \in 1..Len(left_rows) :
                             left_rows[j].cls.type = "moku" /\ left_rows[j].y > CurRow.y}}

\* the anchor is in [y - 20, y_next - 20), y_next infinite without a later
\* item row
C17_InInterval(a) ==
  /\ CurRow.y - 20 <= a
  /\ (C17_LaterItemYs = {} \/ a < MinOf(C17_LaterItemYs) - 20)

\* C17: a step that processes an item row at y while a section is open
\* appends one item whose clauses are exactly the unclaimed clauses (all of
\* the current spread) with anchor in [y - 20, y_next - 20), in their
\* order, and leaves every other unclaimed clause pending, in their order.
C17_ClaimsExactlyTheInterval ==
  [][(pc = "rows" /\ CurType.type = "moku" /\ current_kou # None) =>
       LET In(c)  == C17_InInterval(c.y_start)
           Out(c) == ~C17_InInterval(c.y_start)
           q      == current_kou[1]
       IN /\ \A k \in 1..Len(right_setsu_list) : right_setsu_list[k].id[1] = left_idx
          /\ Len(kous'[q].moku) = Len(kous[q].moku) + 1
          /\ [k \in 1..Len(ClausesOf(kous'[q].moku[Len(kous'[q].moku)])) |->
                ClausesOf(kous'[q].moku[Len(kous'[q].moku)])[k].id]
             = [k \in 1..Len(SelectSeq(right_setsu_list, In)) |->
                  SelectSeq(right_setsu_list, In)[k].id]
          /\ right_setsu_list' = SelectSeq(right_setsu_list, Out)
     ]_vars

\* an item row with a later item row on its spread has just been given one
\* clause, and two clauses are pending for the later item
C17_Witness ==
  /\ pc = "rows" /\ HasPrev /\ PrevType.type = "moku"
  /\ \E k \in row_i..Len(left_rows) : left_rows[k].cls.type = "moku"
  /\ current_kou # None /\ kous[current_kou[1]].moku # <<>>
  /\ LET item == kous[current_kou[1]].moku[Len(kous[current_kou[1]].moku)]
     IN /\ Len(ClausesOf(item)) = 1
        /\ ClausesOf(item)[1].id[1] = left_idx
  /\ Len(right_setsu_list) = 2

\* C18: when the row processed last is a chapter header, whether it opened
\* a chapter or repeated the name of the open one, the current section is
\* none.
C18_ChapterHeaderResetsSection ==
  (HasPrev /\ PrevType.type = "kan_header") => current_kou = None

\* the part about a chapter header that opens a chapter: the open chapter
\* has the header's name, and when it has no section yet there is no
\* current section
C18_NewChapterHasNoSection ==
  (HasPrev /\ PrevType.type = "kan_header") =>
    /\ current_kan # None /\ kans[current_kan[1]].name = PrevType.name[1]
    /\ kans[current_kan[1]].kou = <<>> => current_kou = None

\* an item row that came after a repeated chapter header, with no section
\* header in between, has been appended to the section that was open
\* before the chapter header
C18_ItemUnderStaleSection ==
  /\ HasPrev /\ PrevType.type = "moku" /\ row_i = 3
  /\ left_rows[1].cls.type = "kan_header"
  /\ current_kou # None /\ hist.kouLog[current_kou[1]] # <<>>
  /\ LET log == hist.kouLog[current_kou[1]]
     IN /\ log[Len(log)].name = PrevType.name[1]
        /\ log[Len(log)].y = PrevRow.y
        /\ log[Len(log)].spread = 2

\* the row starts a clause: it is no header or page-number row and has a
\* number, a name, an amount and something after the amount
C19_IsStart(row) == ~IsRightHeader(row.text) /\ SetsuMatch(row.text).ok

\* the row is no header or page-number row and starts no clause
C19_IsOther(row) == ~IsRightHeader(row.text) /\ ~SetsuMatch(row.text).ok

\* the indices of the rows that start a clause, ascending
C19_Starts(rows) == SortedSeq({k \in 1..Len(rows) : C19_IsStart(rows[k])})

\* the texts of the rows after row s and before row e that are no header
\* rows, in row order
C19_OtherTexts(rows, s, e) ==
  [k \in 1..Len(SelectSeq(SubSeq(rows, s + 1, e - 1), C19_IsOther)) |->
     SelectSeq(SubSeq(rows, s + 1, e - 1), C19_IsOther)[k].text]

\* what follows the amount on the row that starts a clause, if not blank
C19_FirstLine(row) ==
  IF Strip(SetsuMatch(row.text).g4) # <<>> THEN <<SetsuMatch(row.text).g4>> ELSE <<>>

C19_LinesOfClause(rows, starts, j) ==
  C19_FirstLine(rows[starts[j]])
  \o C19_OtherTexts(rows, starts[j],
                    IF j < Len(starts) THEN starts[j + 1] ELSE Len(rows) + 1)

\* C19: in what extract_right_page_setsu returns there is one clause per
\* row that starts a clause, in row order, and the rationale lines of a
\* clause are (after what follows the amount on its first row) the rows
\* between its start and the next start that are no header or page-number
\* rows, in row order; so such a row goes to the clause started last before
\* it and to no other, and before the first start to none.
C19_LinesGoToLastStartedClause ==
  fn_pc = "out" =>
    /\ Len(fn_out[1].groups) = Len(C19_Starts(RightLines(fn_in)))
    /\ Len(fn_out[1].value) = Len(fn_out[1].groups)
    /\ \A j \in 1..Len(fn_out[1].groups) :
         /\ fn_out[1].groups[j].y_start = RightLines(fn_in)[C19_Starts(RightLines(fn_in))[j]].y
         /\ fn_out[1].groups[j].setsumei_lines
            = C19_LinesOfClause(RightLines(fn_in), C19_Starts(RightLines(fn_in)), j)

\* a page whose first row is free text, whose second row starts a clause
\* and whose third row is free text again: the first row is in no clause
C19_Witness ==
  /\ fn_pc = "out" /\ Len(RightLines(fn_in)) = 3
  /\ C19_IsOther(RightLines(fn_in)[1]) /\ C19_IsStart(RightLines(fn_in)[2])
  /\ C19_IsOther(RightLines(fn_in)[3])
  /\ Len(fn_out[1].groups) = 1
  /\ fn_out[1].groups[1].setsumei_lines = <<<<"r">>, RightLines(fn_in)[3].text>>

\* the line carries one of the two known labels
C20_IsLabel(line) == Contains(line, Choutei) \/ Contains(line, Santei)

\* the name of a name-amount line, <<>> for any other line
C20_NameOf(line) ==
  IF C20_IsLabel(line) \/ ItemMatch(line) = <<>> THEN <<>>
  ELSE Strip(Slice(line, 1, ItemMatch(line)[1]))

\* the lines before line k that opened a sub-item: name-amount lines whose
\* name is not the clause's and was not seen on an earlier line
C20_Opened(lines, setsu_name, k) ==
  {i \in 1..(k - 1) :
     /\ C20_NameOf(lines[i]) \notin {<<>>, setsu_name}
     /\ \A j \in 1..(i - 1) : C20_NameOf(lines[j]) # C20_NameOf(lines[i])}

\* the lines before line k that restate the clause's name
C20_Restated(lines, setsu_name, k) ==
  {i \in 1..(k - 1) : C20_NameOf(lines[i]) = setsu_name}

\* where the annotation of line k belongs: the name of the sub-item opened
\* last before it, or <<>> (the clause) when none was opened or the
\* clause's name was restated after that sub-item was opened
C20_Target(lines, setsu_name, k) ==
  IF C20_Opened(lines, setsu_name, k) = {} THEN <<>>
  ELSE IF \E r \in C20_Restated(lines, setsu_name, k) :
            r > MaxOf(C20_Opened(lines, setsu_name, k)) THEN <<>>
  ELSE C20_NameOf(lines[MaxOf(C20_Opened(lines, setsu_name, k))])

C20_ValueOf(line) == Strip(RemoveAll(RemoveAll(line, Choutei), Santei))

\* the last annotation with the label lab that belongs to tgt, None if
\* there is none
C20_Expected(lines, setsu_name, tgt, lab) ==
  IF {k \in 1..Len(lines) : /\ Contains(lines[k], lab)
                            /\ lab = Santei => ~Contains(lines[k], Choutei)
                            /\ C20_Target(lines, setsu_name, k) = tgt} = {}
  THEN None
  ELSE Some(C20_ValueOf(lines[MaxOf(
         {k \in 1..Len(lines) : /\ Contains(lines[k], lab)
                                /\ lab = Santei => ~Contains(lines[k], Choutei)
                                /\ C20_Target(lines, setsu_name, k) = tgt})]))

\* C20: in what parse_setsumei_lines returns, an annotation line is attached
\* to the sub-item opened last before it, and to the clause itself when no
\* sub-item was opened before it or a name-amount line with the clause's
\* name came after that sub-item was opened; it is attached nowhere else,
\* and no sub-item carries the clause's name.
C20_AnnotationsGoToOpenSubItem ==
  fn_pc = "out" =>
    /\ \A j \in 1..Len(fn_out[1].items) :
         /\ fn_out[1].items[j].name # fn_in.setsu_name
         /\ fn_out[1].items[j].choutei
            = C20_Expected(fn_in.lines, fn_in.setsu_name, fn_out[1].items[j].name, Choutei)
         /\ fn_out[1].items[j].santei
            = C20_Expected(fn_in.lines, fn_in.setsu_name, fn_out[1].items[j].name, Santei)
    /\ fn_out[1].info.choutei = C20_Expected(fn_in.lines, fn_in.setsu_name, <<>>, Choutei)
    /\ fn_out[1].info.santei = C20_Expected(fn_in.lines, fn_in.setsu_name, <<>>, Santei)
    /\ \A k \in 1..Len(fn_in.lines) :
         C20_Target(fn_in.lines, fn_in.setsu_name, k) # <<>> =>
           IndexOfName(fn_out[1].items, C20_Target(fn_in.lines, fn_in.setsu_name, k)) # 0

\* sub-item A, an annotation, the clause's name restated, another
\* annotation: the first is on A, the second on the clause
C20_Witness ==
  /\ fn_pc = "out"
  /\ fn_in.lines = << <<"A", " ", "1">>, Choutei \o <<" ", "x">>,
                      <<"S", " ", "5">>, Santei \o <<" ", "z">> >>
  /\ Len(fn_out[1].items) = 1
  /\ fn_out[1].items[1].choutei = Some(<<"x">>)
  /\ fn_out[1].items[1].santei = None
  /\ fn_out[1].info = [choutei |-> None, santei |-> Some(<<"z">>)]

\* the names of the sub-items the lines open
C21_OpenedNames(lines, setsu_name) ==
  {C20_NameOf(lines[i]) : i \in C20_Opened(lines, setsu_name, Len(lines) + 1)}

\* the labels of the annotation lines that belong to the clause itself
C21_ClauseLabels(lines, setsu_name) ==
  {lab \in {Choutei, Santei} : C20_Expected(lines, setsu_name, <<>>, lab) # None}

\* C21 as stated: when a sub-item was opened the keys of the result of
\* parse_setsumei_lines are exactly the names of the opened sub-items, and
\* otherwise the result is the record of the clause's own annotations.
C21_KeysAreSubItemNames ==
  fn_pc = "out" =>
    SetsumeiKeys(fn_out[1])
    = IF C21_OpenedNames(fn_in.lines, fn_in.setsu_name) # {}
      THEN C21_OpenedNames(fn_in.lines, fn_in.setsu_name)
      ELSE C21_ClauseLabels(fn_in.lines, fn_in.setsu_name)

\* C21 amended: when a sub-item was opened the keys of the result are the
\* names of the opened sub-items and, if an annotation belongs to the clause
\* itself, the one further key _節情報 holding the clause's annotations;
\* when none was opened the result is the record of the clause's annotations.
C21_KeysAreSubItemNamesAndClauseInfo ==
  fn_pc = "out" =>
    /\ SetsumeiKeys(fn_out[1])
       = IF C21_OpenedNames(fn_in.lines, fn_in.setsu_name) # {}
         THEN C21_OpenedNames(fn_in.lines, fn_in.setsu_name)
              \cup (IF C21_ClauseLabels(fn_in.lines, fn_in.setsu_name) # {}
                    THEN {SetsuInfoKey} ELSE {})
         ELSE C21_ClauseLabels(fn_in.lines, fn_in.setsu_name)
    /\ fn_out[1].flat <=> /\ C21_OpenedNames(fn_in.lines, fn_in.setsu_name) = {}
                          /\ C21_ClauseLabels(fn_in.lines, fn_in.setsu_name) # {}

\* an annotation before the first sub-item: the result has the sub-item's
\* name and the key of the clause's annotations
C21_Witness ==
  /\ fn_pc = "out"
  /\ fn_in.lines = << Choutei \o <<" ", "x">>, <<"A", " ", "1">> >>
  /\ SetsumeiKeys(fn_out[1]) = {<<"A">>, SetsuInfoKey}

\* a token of digits and commas whose value is at least 100
C22_IsLarge(tok) ==
  /\ tok # <<>> /\ \A k \in 1..Len(tok) : IsDigit(tok[k]) \/ tok[k] = ","
  /\ \E k \in 1..Len(tok) : IsDigit(tok[k])
  /\ DigitsValue(SelectSeq(tok, IsDigit)) >= 100

\* the tokens after token i that can be an amount
C22_LargeAfter(parts, i) == {k \in (i + 1)..Len(parts) : C22_IsLarge(parts[k])}

\* token i lies in the stretch of a clause, from its start to its amount
C22_InClause(res, i) == \E n \in 1..Len(res) : res[n].start <= i /\ i <= res[n].at

\* C22: every clause parse_right_setsu returns starts at a token of digits,
\* its amount token is the first token of digits and commas after the start
\* whose value is at least 100, its amount is 1000 times that value (so no
\* value below 100 is an amount), at least one token lies between start and
\* amount, and a clause starts only after the amount of the one before; a
\* token of digits outside every clause has no such amount token after it,
\* or has it immediately after it, and yields no clause.
C22_AmountIsFirstLargeNumber ==
  fn_pc = "out" =>
    /\ \A n \in 1..Len(fn_out[1].value) :
         /\ IsDigitToken(SplitWords(fn_in)[fn_out[1].value[n].start])
         /\ C22_LargeAfter(SplitWords(fn_in), fn_out[1].value[n].start) # {}
         /\ fn_out[1].value[n].at
            = MinOf(C22_LargeAfter(SplitWords(fn_in), fn_out[1].value[n].start))
         /\ fn_out[1].value[n].at > fn_out[1].value[n].start + 1
         /\ fn_out[1].value[n].kingaku
            = 1000 * DigitsValue(SelectSeq(SplitWords(fn_in)[fn_out[1].value[n].at], IsDigit))
         /\ fn_out[1].value[n].kingaku >= 100000
         /\ n > 1 => fn_out[1].value[n].start > fn_out[1].value[n - 1].at
    /\ \A i \in 1..Len(SplitWords(fn_in)) :
         (IsDigitToken(SplitWords(fn_in)[i]) /\ ~C22_InClause(fn_out[1].value, i)) =>
           \/ C22_LargeAfter(SplitWords(fn_in), i) = {}
           \/ MinOf(C22_LargeAfter(SplitWords(fn_in), i)) = i + 1

\* the row "1 A 99 1,00 1 A": the number below 100 was passed over, the
\* amount is that of the fourth token, and the second 1 yields no clause
C22_Witness ==
  /\ fn_pc = "out"
  /\ fn_in = Join(<< <<"1">>, <<"A">>, <<"9", "9">>, <<"1", ",", "0", "0">>,
                     <<"1">>, <<"A">> >>)
  /\ Len(fn_out[1].value) = 1
  /\ fn_out[1].value[1].at = 4 /\ fn_out[1].value[1].kingaku = 100000

\* the tokens between the start and the amount of a clause that are not
\* made of digits and commas, joined without blanks
C23_NonNumericName(parts, rec) ==
  LET NotNumeric(tok) == \E k \in 1..Len(tok) : ~(IsDigit(tok[k]) \/ tok[k] = ",")
  IN  Flatten(SelectSeq(SubSeq(parts, rec.start + 1, rec.at - 1), NotNumeric))

\* C23: the name of every clause parse_right_setsu returns is made of the
\* non-numeric tokens between its start and its amount only.
C23_NameFromNonNumericTokens ==
  fn_pc = "out" =>
    \A n \in 1..Len(fn_out[1].value) :
      fn_out[1].value[n].setsu_mei
      = C23_NonNumericName(SplitWords(fn_in), fn_out[1].value[n])

\* the row "1 A 99 1,00": the clause is named A99
C23_SmallNumberInName ==
  /\ fn_pc = "out"
  /\ fn_in = Join(<< <<"1">>, <<"A">>, <<"9", "9">>, <<"1", ",", "0", "0">> >>)
  /\ Len(fn_out[1].value) = 1
  /\ fn_out[1].value[1].setsu_mei = <<"A", "9", "9">>

\* the rows that hold the text in the stream of the side
C24_RowsWith(rows, text, side) ==
  {k \in 1..Len(rows) :
     \E p \in 1..Len(SplitWords(IF side = "left" THEN rows[k].left ELSE rows[k].right)) :
       SplitWords(IF side = "left" THEN rows[k].left ELSE rows[k].right)[p] = text}

\* where the text stands in a stream
C24_Position(stream, text) ==
  MinOf({p \in 1..Len(SplitWords(stream)) : SplitWords(stream)[p] = text})

\* the word is in the stream of its side in the row of its key and in no
\* other row, and in no row in the stream of the other side
C24_PlacedOnce(rows, w, side, other) ==
  /\ C24_RowsWith(rows, w.text, other) = {}
  /\ Cardinality(C24_RowsWith(rows, w.text, side)) = 1
  /\ \A k \in C24_RowsWith(rows, w.text, side) :
       rows[k].y = PyRound(w.top, Y_TOLERANCE) * Y_TOLERANCE

\* in the streams of a row two words of one page with different left x
\* stand in the order of their left x
C24_OrderedByX0(rows, words, side) ==
  \A u \in 1..Len(words), v \in 1..Len(words) :
    \A k \in C24_RowsWith(rows, words[u].text, side)
             \cap C24_RowsWith(rows, words[v].text, side) :
      words[u].x0 < words[v].x0 =>
        C24_Position(IF side = "left" THEN rows[k].left ELSE rows[k].right, words[u].text)
        < C24_Position(IF side = "left" THEN rows[k].left ELSE rows[k].right, words[v].text)

\* C24: extract_spread_rows puts every word of the two pages in exactly one
\* row, the one whose key is round(top / tolerance) * tolerance, in the text
\* of its own page only; rows hold nothing else, their keys ascend strictly,
\* and within a text the words stand by ascending left x.
C24_EveryTokenInItsRowAndStream ==
  fn_pc = "out" =>
    /\ \A k \in 1..Len(fn_in.left.words) :
         C24_PlacedOnce(fn_out[1].rows, fn_in.left.words[k], "left", "right")
    /\ \A k \in 1..Len(fn_in.right.words) :
         C24_PlacedOnce(fn_out[1].rows, fn_in.right.words[k], "right", "left")
    /\ \A k \in 1..(Len(fn_out[1].rows) - 1) : fn_out[1].rows[k].y < fn_out[1].rows[k + 1].y
    /\ \A k \in 1..Len(fn_out[1].rows) :
         Len(SplitWords(fn_out[1].rows[k].left)) + Len(SplitWords(fn_out[1].rows[k].right))
         = Cardinality({m \in 1..Len(fn_out[1].all_words) :
              PyRound(fn_out[1].all_words[m].top, Y_TOLERANCE) * Y_TOLERANCE
              = fn_out[1].rows[k].y})
    /\ C24_OrderedByX0(fn_out[1].rows, fn_in.left.words, "left")
    /\ C24_OrderedByX0(fn_out[1].rows, fn_in.right.words, "right")

\* two words of each page in the row of key 24, each page's second word
\* left of its first: both texts are reordered, and neither holds a word of
\* the other page
C24_Witness ==
  /\ fn_pc = "out"
  /\ Len(fn_in.left.words) = 2 /\ Len(fn_in.right.words) = 2
  /\ \A k \in 1..2 : fn_in.left.words[k].top = 29 /\ fn_in.right.words[k].top \in {18, 29}
  /\ fn_in.left.words[1].x0 > fn_in.left.words[2].x0
  /\ fn_in.right.words[1].x0 > fn_in.right.words[2].x0
  /\ Len(fn_out[1].rows) = 1
  /\ fn_out[1].rows[1] = [y |-> 24,
                          left  |-> <<"l", "b", " ", "l", "a">>,
                          right |-> <<"r", "b", " ", "r", "a">>]

\* the word of all_words that came from word k of the page of the side
C25_Aligned(all_words, left_words, side, k) ==
  all_words[IF side = "left" THEN k ELSE Len(left_words) + k]

\* C25 as stated: after the alignment of extract_spread_rows every word of
\* the right page has its left x and its right x increased by the width of
\* the left page, every word of the left page has both unchanged, each
\* word carries its page of origin, and no word is missing.
C25_AllCoordinatesShifted ==
  fn_pc = "out" =>
    /\ Len(fn_out[1].all_words) = Len(fn_in.left.words) + Len(fn_in.right.words)
    /\ \A k \in 1..Len(fn_in.left.words) :
         C25_Aligned(fn_out[1].all_words, fn_in.left.words, "left", k)
         = [text |-> fn_in.left.words[k].text, top |-> fn_in.left.words[k].top,
            x0 |-> fn_in.left.words[k].x0, x1 |-> fn_in.left.words[k].x1,
            source |-> "left"]
    /\ \A k \in 1..Len(fn_in.right.words) :
         C25_Aligned(fn_out[1].all_words, fn_in.left.words, "right", k)
         = [text |-> fn_in.right.words[k].text, top |-> fn_in.right.words[k].top,
            x0 |-> fn_in.right.words[k].x0 + fn_in.left.width,
            x1 |-> fn_in.right.words[k].x1 + fn_in.left.width,
            source |-> "right"]

\* the same of the alignment of R6/extract_budget_v3.py, which holds
C25_V3ShiftsBoth ==
  fn_pc = "out" =>
    /\ Len(fn_out[1].all_words_v3) = Len(fn_in.left.words) + Len(fn_in.right.words)
    /\ \A k \in 1..Len(fn_in.right.words) :
         /\ C25_Aligned(fn_out[1].all_words_v3, fn_in.left.words, "right", k).x0
            = fn_in.right.words[k].x0 + fn_in.left.width
         /\ C25_Aligned(fn_out[1].all_words_v3, fn_in.left.words, "right", k).x1
            = fn_in.right.words[k].x1 + fn_in.left.width

\* a word of the right page whose left x was moved and whose right x was
\* not: its right x is left of its left x
C25_RightX1NotShifted ==
  /\ fn_pc = "out"
  /\ \E k \in 1..Len(fn_in.right.words) :
       /\ C25_Aligned(fn_out[1].all_words, fn_in.left.words, "right", k).x0
          = fn_in.right.words[k].x0 + fn_in.left.width
       /\ C25_Aligned(fn_out[1].all_words, fn_in.left.words, "right", k).x1
          = fn_in.right.words[k].x1
       /\ C25_Aligned(fn_out[1].all_words, fn_in.left.words, "right", k).x1
          < C25_Aligned(fn_out[1].all_words, fn_in.left.words, "right", k).x0

\* the chapters of the result list other than the open one
C26_Finalized == {result[k] : k \in 1..Len(result)} \ {current_kan[j] : j \in 1..Len(current_kan)}

\* the section is one of the sections of the chapter
C26_SectionOf(q, c) == \E j \in 1..Len(kans[c].kou) : kans[c].kou[j] = q

\* the current section is a section of the open chapter and of no
\* chapter that was appended to the result before
C26_CurrentSectionInOpenChapter ==
  current_kou # None =>
    /\ current_kan # None
    /\ C26_SectionOf(current_kou[1], current_kan[1])
    /\ \A c \in C26_Finalized : ~C26_SectionOf(current_kou[1], c)

\* a step that appends an item appends it to a section of the open chapter
C26_ItemGoesUnderOpenChapter ==
  \A q \in 1..Len(kous) :
    (Len(kous') = Len(kous) /\ kous'[q].moku # kous[q].moku) =>
      /\ current_kan # None /\ C26_SectionOf(q, current_kan[1])
      /\ Len(kous'[q].moku) = Len(kous[q].moku) + 1

\* C26: in every state of build_budget_structure the current section, when
\* there is one, is a section of the open chapter (there is an open
\* chapter, and the section belongs to no chapter finalized before), and
\* every step that appends an item appends it under the open chapter.
C26_CurrentSectionBelongsToOpenChapter ==
  [](C26_CurrentSectionInOpenChapter) /\ [][C26_ItemGoesUnderOpenChapter]_vars

\* one chapter is finalized, and an item was just appended to the current
\* section, which is a section of the chapter opened after it
C26_Witness ==
  /\ pc # "done" /\ HasPrev /\ PrevType.type = "moku"
  /\ Len(result) = 1 /\ current_kan # None /\ current_kou # None
  /\ current_kan[1] # result[1]
  /\ Len(kous[current_kou[1]].moku) = 1
  /\ kans[current_kan[1]].kou = <<current_kou[1]>>

\* C27: a step of build_budget_structure leaves every chapter that is in
\* the result list where it is and as it is: its name and amount, its list
\* of sections, and each section with its items and their clauses.
C27_FinalizedChaptersUnchanged ==
  [][\A k \in 1..Len(result) :
       /\ Len(result') >= k /\ result'[k] = result[k]
       /\ kans'[result[k]] = kans[result[k]]
       /\ \A j \in 1..Len(kans[result[k]].kou) :
            kous'[kans[result[k]].kou[j]] = kous[kans[result[k]].kou[j]]]_vars

\* after a chapter with a section was finalized, a section of the same
\* name was opened in the chapter that followed it: the finalized chapter
\* still has its one section, which is not the current one
C27_Witness ==
  /\ pc # "done" /\ HasPrev /\ PrevType.type = "kou_header"
  /\ Len(result) = 1 /\ current_kan # None /\ current_kou # None
  /\ current_kan[1] # result[1]
  /\ Len(kans[result[1]].kou) = 1
  /\ kans[result[1]].kou[1] # current_kou[1]
  /\ kous[kans[result[1]].kou[1]].name = kous[current_kou[1]].name

\* C28: in every state of build_budget_structure two adjacent chapters of
\* the result list have different names, and while rows are processed the
\* open chapter is not in the result list and its name differs from the
\* name of the last chapter there.
C28_AdjacentChaptersDiffer ==
  /\ \A k \in 1..(Len(result) - 1) : kans[result[k]].name # kans[result[k + 1]].name
  /\ (pc # "done" /\ current_kan # None /\ result # <<>>) =>
       /\ \A k \in 1..Len(result) : result[k] # current_kan[1]
       /\ kans[current_kan[1]].name # kans[result[Len(result)]].name

\* the row processed last is a chapter header with the name of the open
\* chapter, which already had a section: no chapter was added
C28_Witness ==
  /\ HasPrev /\ PrevType.type = "kan_header"
  /\ result # <<>> /\ current_kan # None
  /\ kans[current_kan[1]].name = PrevType.name[1]
  /\ kans[current_kan[1]].kou # <<>>
  /\ Len(kans) = Len(result) + 1

\* line d is a name-amount line with the name of a sub-item opened before it
C29_Repeats(lines, setsu_name, d) ==
  /\ C20_NameOf(lines[d]) \notin {<<>>, setsu_name}
  /\ \E i \in C20_Opened(lines, setsu_name, d) : C20_NameOf(lines[i]) = C20_NameOf(lines[d])

\* the lines without line d
C29_Without(lines, d) == SubSeq(lines, 1, d - 1) \o SubSeq(lines, d + 1, Len(lines))

\* the amount on the line that opened the sub-item of this name
C29_FirstAmount(lines, setsu_name, name) ==
  LET i == MinOf({k \in 1..Len(lines) : C20_NameOf(lines[k]) = name})
  IN  1000 * DigitsValue(SelectSeq(lines[i], IsDigit))

\* C29: a name-amount line of parse_setsumei_lines whose name is that of a
\* sub-item opened before changes nothing: the result is the result for
\* the lines without it (the sub-items, their annotations and remarks and
\* those of the clause are the same, so what was open before the line
\* received what followed it), there is one sub-item of the name, and its
\* amount is the one recorded first.
C29_RepeatedNameChangesNothing ==
  fn_pc = "out" =>
    \A d \in 1..Len(fn_in.lines) :
      C29_Repeats(fn_in.lines, fn_in.setsu_name, d) =>
        /\ fn_out[1] = parse_setsumei_lines(C29_Without(fn_in.lines, d), fn_in.setsu_name)
        /\ Cardinality({j \in 1..Len(fn_out[1].items) :
                          fn_out[1].items[j].name = C20_NameOf(fn_in.lines[d])}) = 1
        /\ fn_out[1].items[IndexOfName(fn_out[1].items, C20_NameOf(fn_in.lines[d]))].kingaku
           = C29_FirstAmount(fn_in.lines, fn_in.setsu_name, C20_NameOf(fn_in.lines[d]))

\* sub-items A and B, A once more with another amount, a remark: A keeps
\* its first amount and the remark is on B
C29_Witness ==
  /\ fn_pc = "out"
  /\ fn_in.lines = << <<"A", " ", "1">>, <<"B", " ", "2">>, <<"A", " ", "3">>, <<"r">> >>
  /\ Len(fn_out[1].items) = 2
  /\ fn_out[1].items[1] = [name |-> <<"A">>, kingaku |-> 1000, choutei |-> None,
                           santei |-> None, bikou |-> None]
  /\ fn_out[1].items[2].bikou = Some(<<"r">>)


\* the sections of a converted chapter {name: {..., 項: [...]}}
C30_Sections(kan) == JGet(kan.kv[1][2], Key.kou).xs

\* C30: convert_kan is idempotent: applied to its own output it returns
\* that output unchanged, so a chapter already in name-keyed form keeps its
\* sections, items and clauses.
C30_ConvertKanIdempotent ==
  fn_pc = "twice" => fn_out[1].second = fn_out[1].first

\* C30: a chapter in name-keyed form with a section, which convert_kan
\* returns without any section.
C30_SectionsDropped ==
  /\ fn_pc = "twice"
  /\ fn_out[1].first[1].t = "dict" /\ fn_out[1].second[1].t = "dict"
  /\ fn_out[1].first[1].kv[1][1] = JStr(<<"A">>)
  /\ Len(C30_Sections(fn_out[1].first[1])) > 0
  /\ \A i \in 1..Len(C30_Sections(fn_out[1].first[1])) :
       /\ C30_Sections(fn_out[1].first[1])[i].t = "dict"
       /\ Len(C30_Sections(fn_out[1].first[1])[i].kv) = 1
  /\ fn_out[1].second[1].kv[1][1] = JStr(<<"A">>)
  /\ C30_Sections(fn_out[1].second[1]) = <<>>

====
